---- MODULE Spec2Model ----
(***************************************************************************)
(* Model of the OpenRTX persistent settings store (settings_storage_init, *)
(* _load, _save) on top of the NVM access layer (nvm_read, nvm_write,      *)
(* nvm_erase).                                                             *)
(*                                                                         *)
(* A partition is a sequence of bytes (offset o is element o + 1).  A      *)
(* settings store is the packed little-endian record                       *)
(*     MAGIC(4) length(2) counter(2) settings(sizeof_settings_t) crc(2).   *)
(* The payload settings_t is kept at SettingsLen bytes instead of 31: the  *)
(* code never looks inside the payload, it only copies, compares and       *)
(* checksums it.                                                           *)
(***************************************************************************)
EXTENDS Integers, Sequences, FiniteSets, TLC

(***************************************************************************)
(* Bounds of the model.                                                    *)
(***************************************************************************)
\* number of payload bytes of settings_t kept by the model
SettingsLen == 2
\* settings_storage_save calls (completed or interrupted) in one behaviour
MaxSaves == 4
\* settings_storage_init calls (handles created) in one behaviour
MaxBoots == 2
\* power losses in the middle of a save in one behaviour
MaxCrashes == 1
\* save calls made after a power loss
PostCrashSaves == 1
\* what SpecScan explores: frames in a partition at the start, save calls
ScanFrames == 2
ScanSaves == 1
\* what SpecFault explores: save calls on a device with a failing hook
FaultSaves == 2
\* what SpecAccess explores: calls of the access layer in one behaviour
MaxCalls == 2
MaxDevCalls == 4

(***************************************************************************)
(* Program constants.                                                      *)
(***************************************************************************)
SETTINGS_MAGIC == 1481527375
EINVAL == 22
ENOENT == 2
EILSEQ == 84
E2BIG == 7
ENOTSUP == 95
PART_A == 1
PART_B == 2
\* the result of a call whose loop never ends
NoReturn == -1000

(***************************************************************************)
(* Bytes and little-endian scalars.                                        *)
(***************************************************************************)
RECURSIVE BitOp(_, _, _, _)
BitOp(isXor, a, b, n) ==
    IF n = 0 THEN 0
    ELSE (IF isXor THEN (a + b) % 2 ELSE (a % 2) * (b % 2))
         + 2 * BitOp(isXor, a \div 2, b \div 2, n - 1)

NibXor == [a \in 0..15 |-> [b \in 0..15 |-> BitOp(TRUE, a, b, 4)]]
NibAnd == [a \in 0..15 |-> [b \in 0..15 |-> BitOp(FALSE, a, b, 4)]]

Xor8(a, b) == NibXor[a \div 16][b \div 16] * 16 + NibXor[a % 16][b % 16]
And8(a, b) == NibAnd[a \div 16][b \div 16] * 16 + NibAnd[a % 16][b % 16]
Xor16(a, b) == Xor8(a \div 256, b \div 256) * 256 + Xor8(a % 256, b % 256)

LE16(v) == <<v % 256, (v \div 256) % 256>>
LE32(v) == <<v % 256, (v \div 256) % 256, (v \div 65536) % 256,
             (v \div 16777216) % 256>>
U16(b, i) == b[i] + 256 * b[i + 1]

\* the four bytes of the magic word as they lie in memory, and an erased word
MagicBytes == LE32(SETTINGS_MAGIC)
ErasedWord == <<255, 255, 255, 255>>

(***************************************************************************)
(* crc_ccitt: CRC-16/CCITT, polynomial 0x1021, initial value 0xFFFF, no    *)
(* reflection (the value 0x29B1 for "123456789").                          *)
(***************************************************************************)
\* the 16-bit remainder contributed by the byte leaving the register
CrcTable ==
    [x0 \in 0..255 |->
        LET x == Xor8(x0, x0 \div 16)
        IN  Xor16(Xor16((x * 4096) % 65536, x * 32), x)]

CrcStep(crc, b) ==
    Xor16((crc * 256) % 65536, CrcTable[Xor8(crc \div 256, b)])

RECURSIVE CrcFold(_, _, _, _)
\* next is evaluated before the fold goes on
CrcNext(next, data, i, len) ==
    IF next >= 0 THEN CrcFold(next, data, i + 1, len) ELSE next

CrcFold(crc, data, i, len) ==
    IF i > len THEN crc
    ELSE CrcNext(CrcStep(crc, data[i]), data, i, len)

crc_ccitt(data, len) == CrcFold(65535, data, 1, len)

CrcCheckVector == crc_ccitt(<<49, 50, 51, 52, 53, 54, 55, 56, 57>>, 9) = 10673

(***************************************************************************)
(* settings_t, settings_store_t and the compiled-in defaults.              *)
(***************************************************************************)
sizeof_settings_t == SettingsLen
sizeof_settings_store_t == 8 + sizeof_settings_t + 2

\* the leading bytes of default_settings: brightness, contrast, sqlLevel,
\* voxLevel, utc_timezone, gps_enabled
DefaultBytes == <<100, 255, 4, 0, 0, 0>>
default_settings == [i \in 1..sizeof_settings_t |-> DefaultBytes[i]]

\* the settings the caller passes to save: the defaults with another brightness
Brightness == {100, 60, 255}
Payloads == {[default_settings EXCEPT ![1] = b] : b \in Brightness}

\* the bytes of a settings_store_t as they lie in memory (packed, little endian)
StoreBytes(store) ==
    store.MAGIC \o LE16(store.length) \o LE16(store.counter)
        \o store.settings \o LE16(store.crc)

ZeroStore ==
    [MAGIC |-> <<0, 0, 0, 0>>, length |-> 0, counter |-> 0,
     settings |-> [i \in 1..sizeof_settings_t |-> 0], crc |-> 0]

default_settings_store ==
    LET st == [MAGIC |-> MagicBytes, length |-> sizeof_settings_store_t,
               counter |-> 0, settings |-> default_settings, crc |-> 0]
    IN  [st EXCEPT !.crc = crc_ccitt(StoreBytes(st), sizeof_settings_store_t - 2)]

\* update_settings_store without counter++
update_settings_store_same_counter(settings, store) ==
    LET st == [store EXCEPT !.length = sizeof_settings_store_t,
                            !.settings = settings]
    IN  [st EXCEPT !.crc = crc_ccitt(StoreBytes(st), sizeof_settings_store_t - 2)]

\* update_settings_store leaving the CRC of the store as it was
update_settings_store_old_crc(settings, store) ==
    [store EXCEPT !.counter = (store.counter + 1) % 65536,
                  !.length = sizeof_settings_store_t,
                  !.settings = settings]

update_settings_store(settings, store) ==
    LET st == [store EXCEPT !.counter = (store.counter + 1) % 65536,
                            !.length = sizeof_settings_store_t,
                            !.settings = settings]
    IN  [st EXCEPT !.crc = crc_ccitt(StoreBytes(st), sizeof_settings_store_t - 2)]

\* check_store_integrity without the stale flag
check_store_integrity_never_stale(store) ==
    IF store.MAGIC # MagicBytes THEN 0
    ELSE IF store.length > sizeof_settings_store_t THEN 0
    ELSE IF store.length < 2 THEN NoReturn
    ELSE IF store.crc = crc_ccitt(StoreBytes(store), store.length - 2)
         THEN 1
         ELSE 0

\* 1: valid and current, -1: valid but stale, 0: corrupted.  With a length
\* below 2 the CRC is asked over length - 2 bytes, a size that wrapped around
\* to the whole address space and more: the call faults
check_store_integrity(store) ==
    IF store.MAGIC # MagicBytes THEN 0
    ELSE IF store.length > sizeof_settings_store_t THEN 0
    ELSE IF store.length < 2 THEN NoReturn
    ELSE IF store.crc = crc_ccitt(StoreBytes(store), store.length - 2)
         THEN (IF store.length # sizeof_settings_store_t THEN -1 ELSE 1)
         ELSE 0

(***************************************************************************)
(* The backend hooks (dev->ops->read, write, erase) return what the device *)
(* driver returns.  fault describes a failing hook: the hook named by op   *)
(* returns -err for every call that touches a byte of [lo, hi), offsets    *)
(* taken inside the partition; the other hooks and calls succeed.  A       *)
(* failing write or erase hook leaves the device as it was.                *)
(* ub is what the read hook does when it is called with a length that      *)
(* wrapped around below zero (read_store, a header whose length field is   *)
(* below 10): it returns 0 after it has written past the buffer it was     *)
(* given, it returns a negative error code, or the call never returns      *)
(* (NoReturn: the firmware faults).  Such a header exists in SpecHeader     *)
(* only, which starts with each of the three.                              *)
(***************************************************************************)
VARIABLE fault

NoFault == [op |-> "none", lo |-> 0, hi |-> 0, err |-> 0, ub |-> NoReturn]

hook_fails(op, offset, len) ==
    /\ fault.op = op
    /\ offset < fault.hi /\ fault.lo < offset + len

(***************************************************************************)
(* NVM access layer, for one partition whose content is mem and whose      *)
(* size (nvm_getPart) is Len(mem).                                         *)
(***************************************************************************)
nvm_read(mem, offset, len) ==
    IF offset + len > Len(mem)
    THEN [ret |-> -EINVAL, data |-> <<>>]
    ELSE IF hook_fails("read", offset, len)
    THEN [ret |-> -fault.err, data |-> <<>>]
    ELSE [ret |-> 0, data |-> SubSeq(mem, offset + 1, offset + len)]

(***************************************************************************)
(* Scanning a partition.                                                   *)
(***************************************************************************)
\* parse_result taking a wrong magic number for an empty partition
parse_result_magic_as_empty(offset, prev_offset, magic) ==
    IF offset = prev_offset \/ magic # ErasedWord
    THEN [ret |-> -ENOENT, offset |-> offset]
    ELSE [ret |-> 0, offset |-> prev_offset]

parse_result(offset, prev_offset, magic) ==
    IF magic # ErasedWord THEN [ret |-> -EILSEQ, offset |-> offset]
    ELSE IF offset = prev_offset THEN [ret |-> -ENOENT, offset |-> offset]
    ELSE [ret |-> 0, offset |-> prev_offset]

RECURSIVE parse_loop(_, _, _, _, _)
\* one turn of the loop, r the six bytes read at offset
parse_step(mem, limit, offset, prev_offset, r) ==
    IF r.ret < 0 THEN [ret |-> r.ret, offset |-> offset]
    ELSE IF SubSeq(r.data, 1, 4) # MagicBytes
         THEN parse_result(offset, prev_offset, SubSeq(r.data, 1, 4))
    \* a length of 0 leaves offset where it is: the loop reads the same six
    \* bytes for ever
    ELSE IF U16(r.data, 5) = 0 THEN [ret |-> NoReturn, offset |-> offset]
    ELSE parse_loop(mem, limit, offset + U16(r.data, 5), offset,
                    SubSeq(r.data, 1, 4))

parse_loop(mem, limit, offset, prev_offset, magic) ==
    IF offset < limit
    THEN parse_step(mem, limit, offset, prev_offset, nvm_read(mem, offset, 6))
    ELSE parse_result(offset, prev_offset, magic)

\* limit > 0 at every call, so the buffer is always read before it is tested
parse_partition(mem, limit) == parse_loop(mem, limit, 0, 0, ErasedWord)

\* the store of this firmware's length: r the settings and the CRC read
read_store_current(st, r) ==
    IF r.ret < 0 THEN [ret |-> r.ret, store |-> st]
    ELSE [ret |-> 0,
          store |-> [st EXCEPT !.settings = SubSeq(r.data, 1, sizeof_settings_t),
                               !.crc = U16(r.data, sizeof_settings_t + 1)]]

\* the shorter store: c the CRC read
read_store_crc(got, c) ==
    IF c.ret < 0 THEN [ret |-> c.ret, store |-> got]
    ELSE [ret |-> 0, store |-> [got EXCEPT !.crc = U16(c.data, 1)]]

\* the shorter store: pre holds the default settings, r the settings read
read_store_stale(mem, offset, pre, r) ==
    IF r.ret < 0 THEN [ret |-> r.ret, store |-> pre]
    ELSE read_store_crc(
            [pre EXCEPT !.settings =
                [i \in 1..sizeof_settings_t |->
                    IF i <= pre.length - 10 THEN r.data[i]
                    ELSE default_settings[i]]],
            nvm_read(mem, offset + pre.length - 2, 2))

\* the store whose length is below 10: the length length - 10 of the read is
\* a size_t that wrapped around, and so does the sum (offset + 8) + len that
\* nvm_read compares with the size of the partition: the sum is
\* offset + length - 2 when that is not negative, and a number greater than
\* every size when it is.  A read that passes the test reaches the hook
\* with the wrapped length; a hook that returns 0 has filled the settings
\* with the bytes that follow the header.
read_store_short(mem, offset, pre) ==
    IF offset + pre.length < 2 \/ offset + pre.length - 2 > Len(mem)
    THEN [ret |-> -EINVAL, store |-> pre]
    ELSE IF fault.ub # 0 THEN [ret |-> fault.ub, store |-> pre]
    ELSE read_store_crc(
            [pre EXCEPT !.settings =
                [i \in 1..sizeof_settings_t |->
                    IF offset + 8 + i <= Len(mem) THEN mem[offset + 8 + i]
                    ELSE default_settings[i]]],
            nvm_read(mem, offset + pre.length - 2, 2))

\* st: the store with the header read into it
read_store_body(mem, offset, st) ==
    IF st.length = sizeof_settings_store_t
    THEN read_store_current(st,
            nvm_read(mem, offset + 8, sizeof_settings_store_t - 8))
    ELSE IF st.length < sizeof_settings_store_t
    THEN IF st.length < 10
         THEN read_store_short(mem, offset,
                               [st EXCEPT !.settings = default_settings])
         ELSE read_store_stale(mem, offset,
                               [st EXCEPT !.settings = default_settings],
                               nvm_read(mem, offset + 8, st.length - 10))
    ELSE [ret |-> -E2BIG, store |-> st]

\* h: the eight header bytes read
read_store_header(mem, offset, store, h) ==
    IF h.ret < 0 THEN [ret |-> h.ret, store |-> store]
    ELSE read_store_body(mem, offset,
                         [store EXCEPT !.MAGIC = SubSeq(h.data, 1, 4),
                                       !.length = U16(h.data, 5),
                                       !.counter = U16(h.data, 7)])

read_store(mem, offset, store) ==
    read_store_header(mem, offset, store, nvm_read(mem, offset, 8))

\* ret: 0 corrupt, 1 empty, 2 stale store, 3 valid store, negative: error
RECURSIVE flvs_loop(_, _, _, _)
\* ok: what check_store_integrity says of the store read
flvs_checked(mem, end_lim, off, store, ok) ==
    IF ok = 1 THEN [ret |-> 3, store |-> store, offset |-> off]
    ELSE IF ok = 0 THEN flvs_loop(mem, end_lim - store.length, off, store)
    ELSE IF ok = NoReturn
    THEN [ret |-> NoReturn, store |-> store, offset |-> off]
    ELSE [ret |-> 2, store |-> store, offset |-> off]

\* r: what read_store returns at read_offset
flvs_read(mem, end_lim, offset, read_offset, r) ==
    IF r.ret < 0 THEN [ret |-> r.ret, store |-> r.store, offset |-> offset]
    ELSE flvs_checked(mem, end_lim,
                      IF offset = 0 THEN read_offset + r.store.length ELSE offset,
                      r.store, check_store_integrity(r.store))

\* p: what parse_partition returns
flvs_parsed(mem, end_lim, offset, store, p) ==
    IF p.ret = -EILSEQ THEN [ret |-> 0, store |-> store, offset |-> offset]
    ELSE IF p.ret = -ENOENT THEN [ret |-> 1, store |-> store, offset |-> offset]
    ELSE IF p.ret < 0 THEN [ret |-> p.ret, store |-> store, offset |-> offset]
    ELSE flvs_read(mem, end_lim, offset, p.offset,
                   read_store(mem, p.offset, store))

flvs_loop(mem, end_lim, offset, store) ==
    IF end_lim > 0
    THEN flvs_parsed(mem, end_lim, offset, store, parse_partition(mem, end_lim))
    ELSE [ret |-> 0, store |-> store, offset |-> offset]

\* the caller's store is a local that was never written
find_latest_valid_store(mem) == flvs_loop(mem, Len(mem), 0, ZeroStore)

(***************************************************************************)
(* The device under the two partitions.  "flash": the erase hook exists    *)
(* and a write can only clear bits; "file": no erase hook (nvm_devErase    *)
(* returns -ENOTSUP) and a write replaces the bytes.  write_size and       *)
(* erase_size are 1, so every access is aligned.                           *)
(* A device operation is a run of bytes at an offset of the partition; the *)
(* operations of one save, byte after byte, are the physical byte stream   *)
(* a power loss truncates.                                                 *)
(***************************************************************************)
DevKinds == {"flash", "file"}

EraseOp(off, n) == [erase |-> TRUE, off |-> off, data |-> [i \in 1..n |-> 255]]
WriteOp(off, data) == [erase |-> FALSE, off |-> off, data |-> data]

nvm_write(size, offset, data) ==
    IF offset + Len(data) > size
    THEN [ret |-> -EINVAL, ops |-> <<>>]
    ELSE IF hook_fails("write", offset, Len(data))
    THEN [ret |-> -fault.err, ops |-> <<>>]
    ELSE [ret |-> 0, ops |-> <<WriteOp(offset, data)>>]

nvm_erase(size, kind, offset, len) ==
    IF offset + len > size THEN [ret |-> -EINVAL, ops |-> <<>>]
    ELSE IF kind = "file" THEN [ret |-> -ENOTSUP, ops |-> <<>>]
    ELSE IF hook_fails("erase", offset, len)
    THEN [ret |-> -fault.err, ops |-> <<>>]
    ELSE [ret |-> 0, ops |-> <<EraseOp(offset, len)>>]

\* the first n bytes of op reach the device
DevApply(mem, kind, op, n) ==
    [i \in 1..Len(mem) |->
        IF op.off < i /\ i <= op.off + n
        THEN (IF op.erase \/ kind = "file" THEN op.data[i - op.off]
              ELSE And8(mem[i], op.data[i - op.off]))
        ELSE mem[i]]

RECURSIVE ApplyOps(_, _, _, _, _)
ApplyOps(mem, kind, ops, k, bytes) ==
    IF k > Len(ops) \/ bytes <= 0 THEN mem
    ELSE LET n == IF bytes < Len(ops[k].data) THEN bytes ELSE Len(ops[k].data)
         IN  ApplyOps(DevApply(mem, kind, ops[k], n), kind, ops, k + 1, bytes - n)

RECURSIVE StreamLen(_, _)
StreamLen(ops, k) ==
    IF k > Len(ops) THEN 0 ELSE Len(ops[k].data) + StreamLen(ops, k + 1)

(***************************************************************************)
(* write_store: the device operations it issues, its result and the        *)
(* updated offset.                                                         *)
(***************************************************************************)
RECURSIVE fill_words(_, _, _)
fill_words(size, i, ops) ==
    IF size < 4 \/ i < size - 4
    THEN LET w == nvm_write(size, i, ErasedWord) IN
         IF w.ret < 0 THEN [ret |-> w.ret, ops |-> ops, i |-> i]
         ELSE fill_words(size, i + 4, ops \o w.ops)
    ELSE [ret |-> 0, ops |-> ops, i |-> i]

RECURSIVE fill_bytes(_, _, _)
fill_bytes(size, i, ops) ==
    IF i < size
    THEN LET w == nvm_write(size, i, <<255>>) IN
         IF w.ret < 0 THEN [ret |-> w.ret, ops |-> ops, i |-> i]
         ELSE fill_bytes(size, i + 1, ops \o w.ops)
    ELSE [ret |-> 0, ops |-> ops, i |-> i]

\* f4: the result of the 4-byte loop
erase_fallback(size, f4) ==
    IF f4.ret < 0 THEN [ret |-> f4.ret, ops |-> f4.ops]
    ELSE [k \in {"ret", "ops"} |-> fill_bytes(size, f4.i, f4.ops)[k]]

\* e: the result of nvm_erase
erase_done(size, e) ==
    IF e.ret = -ENOTSUP THEN erase_fallback(size, fill_words(size, 0, <<>>))
    ELSE e

erase_partition(size, kind) == erase_done(size, nvm_erase(size, kind, 0, size))

\* w: the result of the nvm_write of the store at off
write_store_frame(eops, off, w) ==
    IF w.ret < 0 THEN [ret |-> w.ret, ops |-> eops, offset |-> off]
    ELSE [ret |-> 0, ops |-> eops \o w.ops,
          offset |-> off + sizeof_settings_store_t]

\* e: the result of the erase, off: the offset after it
write_store_erased(size, store, offset, off, e) ==
    IF e.ret < 0 THEN [ret |-> e.ret, ops |-> e.ops, offset |-> offset]
    ELSE write_store_frame(e.ops, off, nvm_write(size, off, StoreBytes(store)))

write_store_at(size, kind, store, offset, doErase) ==
    write_store_erased(size, store, offset, IF doErase THEN 0 ELSE offset,
                       IF doErase THEN erase_partition(size, kind)
                       ELSE [ret |-> 0, ops |-> <<>>])

\* write_store without the check for free space
write_store_no_space_check(size, kind, store, offset, erase) ==
    write_store_at(size, kind, store, offset, erase)

write_store(size, kind, store, offset, erase) ==
    write_store_at(size, kind, store, offset,
                   erase \/ (offset + sizeof_settings_store_t > size))

(***************************************************************************)
(* The storage handle (struct settings_storage_s) and the three API calls  *)
(* as functions of the handle.                                             *)
(***************************************************************************)
ZeroHandle ==
    [dev |-> 0, part_A |-> 0, part_B |-> 0,
     part_A_offset |-> 0, part_B_offset |-> 0,
     latest_store |-> ZeroStore,
     initialized |-> FALSE, write_needed |-> FALSE,
     part_A_status |-> 0, part_B_status |-> 0]

init_handle(h) ==
    [h EXCEPT !.dev = 0, !.part_A = PART_A, !.part_B = PART_B,
              !.initialized = FALSE,
              !.latest_store = default_settings_store]

\* the handle after the scan of partition A returned r.ret >= 0
scanned_A(h, r) ==
    IF r.ret = 0 THEN [h EXCEPT !.part_A_status = -1]
    ELSE IF r.ret = 1 THEN [h EXCEPT !.part_A_offset = 0, !.part_A_status = 0]
    ELSE [h EXCEPT !.part_A_offset = r.offset, !.part_A_status = 1]

scanned_B(h, r) ==
    IF r.ret = 0 THEN [h EXCEPT !.part_B_status = -1]
    ELSE IF r.ret = 1 THEN [h EXCEPT !.part_B_offset = 0, !.part_B_status = 0]
    ELSE [h EXCEPT !.part_B_offset = r.offset, !.part_B_status = 1]

\* load_decision with > where the code has >=
load_decision_strict(h, rA, rB) ==
    IF h.part_A_status <= 0
    THEN IF h.part_B_status = 1
         THEN [h EXCEPT !.latest_store = rB.store, !.initialized = TRUE,
                        !.write_needed = (rB.ret = 2)]
         ELSE [h EXCEPT !.latest_store = default_settings_store,
                        !.initialized = TRUE, !.write_needed = TRUE]
    ELSE IF h.part_B_status = 1
         THEN IF rA.store.counter > rB.store.counter
              THEN [h EXCEPT !.latest_store = rA.store, !.initialized = TRUE,
                             !.write_needed = (rA.ret = 2)]
              ELSE [h EXCEPT !.latest_store = rB.store, !.initialized = TRUE,
                             !.write_needed = (rB.ret = 2)]
         ELSE [h EXCEPT !.latest_store = rA.store, !.initialized = TRUE,
                        !.write_needed = (rA.ret = 2)]

\* lines 469-510: the choice between the two stores found
load_decision(h, rA, rB) ==
    IF h.part_A_status <= 0
    THEN IF h.part_B_status = 1
         THEN [h EXCEPT !.latest_store = rB.store, !.initialized = TRUE,
                        !.write_needed = (rB.ret = 2)]
         ELSE [h EXCEPT !.latest_store = default_settings_store,
                        !.initialized = TRUE, !.write_needed = TRUE]
    ELSE IF h.part_B_status = 1
         THEN IF rA.store.counter >= rB.store.counter
              THEN [h EXCEPT !.latest_store = rA.store, !.initialized = TRUE,
                             !.write_needed = (rA.ret = 2)]
              ELSE [h EXCEPT !.latest_store = rB.store, !.initialized = TRUE,
                             !.write_needed = (rB.ret = 2)]
         ELSE [h EXCEPT !.latest_store = rA.store, !.initialized = TRUE,
                        !.write_needed = (rA.ret = 2)]

\* rA, rB: what the scans of partition A and B return
load_scanned(h, rA, rB) ==
    IF rA.ret < 0 THEN [ret |-> rA.ret, s |-> h, copied |-> FALSE]
    ELSE IF rB.ret < 0
    THEN [ret |-> rB.ret, s |-> scanned_A(h, rA), copied |-> FALSE]
    ELSE [ret |-> 0, copied |-> FALSE,
          s |-> load_decision(scanned_B(scanned_A(h, rA), rB), rA, rB)]

\* load_call without the test of initialized: every load scans
load_call_always_scans(h, mem) ==
    load_scanned(h, find_latest_valid_store(mem[h.part_A]),
                 find_latest_valid_store(mem[h.part_B]))

\* copied: whether the call wrote the caller's settings_t
load_call(h, mem) ==
    IF h.initialized
    THEN [ret |-> 0, s |-> h, copied |-> TRUE]
    ELSE load_scanned(h, find_latest_valid_store(mem[h.part_A]),
                      find_latest_valid_store(mem[h.part_B]))

\* target_part with the parity test inverted
target_part_inverted(h) ==
    IF h.latest_store.counter % 2 = 1 THEN h.part_A ELSE h.part_B

\* the partition a store with this counter is written to
target_part(h) ==
    IF h.latest_store.counter % 2 = 1 THEN h.part_B ELSE h.part_A

\* settings_comparison taken as always different
settings_comparison_always(h, settings) == TRUE

\* settings_comparison != 0
settings_comparison(h, settings) == h.latest_store.settings # settings

\* save_written clearing write_needed when write_store has failed
save_written_gives_up(h1, part, w) ==
    IF part = h1.part_B
    THEN IF w.ret < 0
         THEN [ret |-> w.ret, ops |-> w.ops, part |-> part,
               s |-> [h1 EXCEPT !.part_B_offset = w.offset,
                                !.write_needed = FALSE]]
         ELSE [ret |-> 0, ops |-> w.ops, part |-> part,
               s |-> [h1 EXCEPT !.part_B_offset = w.offset,
                                !.part_B_status = 1, !.write_needed = FALSE]]
    ELSE IF w.ret < 0
         THEN [ret |-> w.ret, ops |-> w.ops, part |-> part,
               s |-> [h1 EXCEPT !.part_A_offset = w.offset,
                                !.write_needed = FALSE]]
         ELSE [ret |-> 0, ops |-> w.ops, part |-> part,
               s |-> [h1 EXCEPT !.part_A_offset = w.offset,
                                !.part_A_status = 1, !.write_needed = FALSE]]

\* w: what write_store returns for partition part
save_written(h1, part, w) ==
    IF part = h1.part_B
    THEN IF w.ret < 0
         THEN [ret |-> w.ret, ops |-> w.ops, part |-> part,
               s |-> [h1 EXCEPT !.part_B_offset = w.offset]]
         ELSE [ret |-> 0, ops |-> w.ops, part |-> part,
               s |-> [h1 EXCEPT !.part_B_offset = w.offset,
                                !.part_B_status = 1, !.write_needed = FALSE]]
    ELSE IF w.ret < 0
         THEN [ret |-> w.ret, ops |-> w.ops, part |-> part,
               s |-> [h1 EXCEPT !.part_A_offset = w.offset]]
         ELSE [ret |-> 0, ops |-> w.ops, part |-> part,
               s |-> [h1 EXCEPT !.part_A_offset = w.offset,
                                !.part_A_status = 1, !.write_needed = FALSE]]

\* save_write passing erase = false whatever the status of the partition
save_write_never_erases(h1, size, kind) ==
    IF h1.write_needed
    THEN IF target_part(h1) = h1.part_B
         THEN save_written(h1, h1.part_B,
                  write_store(size, kind, h1.latest_store,
                              h1.part_B_offset, FALSE))
         ELSE save_written(h1, h1.part_A,
                  write_store(size, kind, h1.latest_store,
                              h1.part_A_offset, FALSE))
    ELSE [ret |-> 0, s |-> [h1 EXCEPT !.write_needed = FALSE],
          ops |-> <<>>, part |-> 0]

\* h1: the handle after the comparison and the update of the store
save_write(h1, size, kind) ==
    IF h1.write_needed
    THEN IF target_part(h1) = h1.part_B
         THEN save_written(h1, h1.part_B,
                  write_store(size, kind, h1.latest_store,
                              h1.part_B_offset, h1.part_B_status = -1))
         ELSE save_written(h1, h1.part_A,
                  write_store(size, kind, h1.latest_store,
                              h1.part_A_offset, h1.part_A_status = -1))
    ELSE [ret |-> 0, s |-> [h1 EXCEPT !.write_needed = FALSE],
          ops |-> <<>>, part |-> 0]

\* ops: the device operations issued, part: the partition they went to
save_call(h, settings, size, kind) ==
    save_write(IF settings_comparison(h, settings) \/ h.write_needed
               THEN [h EXCEPT !.latest_store =
                                 update_settings_store(settings, h.latest_store),
                              !.write_needed = TRUE]
               ELSE h,
               size, kind)

(***************************************************************************)
(* The access layer with its own arithmetic.  A uint32_t (and a size_t of  *)
(* the 32-bit targets) is the pair <<high half, low half>> of its two      *)
(* 16-bit halves: sums wrap at 2^32 as they do in the code.                *)
(***************************************************************************)
Half == 65536
U32(n) == <<n \div Half, n % Half>>
Max32 == <<Half - 1, Half - 1>>
Add32(a, b) ==
    <<(a[1] + b[1] + (a[2] + b[2]) \div Half) % Half, (a[2] + b[2]) % Half>>
Gt32(a, b) == a[1] > b[1] \/ (a[1] = b[1] /\ a[2] > b[2])
Mod32(a, m) == (((a[1] % m) * (Half % m)) + (a[2] % m)) % m

(***************************************************************************)
(* nvmTab: one area of AreaSize bytes at device address AreaBase, cut in   *)
(* two partitions of PartSize bytes; the device has DevSize bytes.         *)
(***************************************************************************)
AreaBase == 8
AreaSize == 8
PartSize == 4
DevSize == 24

nvmTab ==
    [nbAreas |-> 1,
     areas |-> <<[baseAddr |-> U32(AreaBase), size |-> U32(AreaSize),
                  nbPart |-> U32(2),
                  partitions |-> <<[offset |-> U32(0), size |-> U32(PartSize)],
                                   [offset |-> U32(PartSize),
                                    size |-> U32(PartSize)]>>]>>]

\* struct nvmDevice: the granularities of dev->info and the hooks of
\* dev->ops that are not NULL
Devices ==
    {[name |-> "flash", write_size |-> 2, erase_size |-> 4,
      write |-> TRUE, erase |-> TRUE, sync |-> FALSE],
     [name |-> "file", write_size |-> 1, erase_size |-> 1,
      write |-> TRUE, erase |-> FALSE, sync |-> TRUE],
     [name |-> "rom", write_size |-> 2, erase_size |-> 4,
      write |-> FALSE, erase |-> FALSE, sync |-> FALSE]}

NULL == [nbPart |-> "NULL"]
\* a struct nvmPartition nobody has filled (the local np of an access call)
NoPart == [offset |-> U32(0), size |-> U32(0)]

nvm_getDesc(index) ==
    IF index >= nvmTab.nbAreas THEN NULL ELSE nvmTab.areas[index + 1]

\* nvm_getPart with the test of the last partition made one too early
getPart_of_below_nbPart(desc, part, pInfo) ==
    IF desc = NULL THEN [ret |-> -EINVAL, pInfo |-> pInfo]
    ELSE IF part = U32(0)
    THEN [ret |-> 0, pInfo |-> [offset |-> U32(0), size |-> desc.size]]
    ELSE IF ~Gt32(desc.nbPart, part) THEN [ret |-> -EINVAL, pInfo |-> pInfo]
    ELSE [ret |-> 0, pInfo |-> desc.partitions[part[2]]]

\* desc: what nvm_getDesc returns; pInfo: the caller's record before the
\* call, the result carries it as the call leaves it
getPart_of(desc, part, pInfo) ==
    IF desc = NULL THEN [ret |-> -EINVAL, pInfo |-> pInfo]
    ELSE IF part = U32(0)
    THEN [ret |-> 0, pInfo |-> [offset |-> U32(0), size |-> desc.size]]
    ELSE IF Gt32(part, desc.nbPart) THEN [ret |-> -EINVAL, pInfo |-> pInfo]
    ELSE [ret |-> 0, pInfo |-> desc.partitions[part[2]]]

nvm_getPart(idx, part, pInfo) == getPart_of(nvm_getDesc(idx), part, pInfo)

\* the result of a device call: hook is the hook invoked ("none" when the
\* call returned before it), address and len what the hook was given
NoHook(ret) ==
    [ret |-> ret, hook |-> "none", address |-> U32(0), len |-> U32(0)]

InDevice(address, len) ==
    address[1] = 0 /\ len[1] = 0 /\ address[2] + len[2] <= DevSize

\* the driver's hook: it rejects an access that leaves the device
hook_call(hook, address, len) ==
    [ret |-> IF InDevice(address, len) THEN 0 ELSE -EINVAL,
     hook |-> hook, address |-> address, len |-> len]

nvm_devRead(dev, address, len) == hook_call("read", address, len)

\* nvm_devWrite without the two tests of the alignment
nvm_devWrite_unaligned(dev, address, len) ==
    IF ~dev.write THEN NoHook(-ENOTSUP)
    ELSE hook_call("write", address, len)

nvm_devWrite(dev, address, len) ==
    IF ~dev.write THEN NoHook(-ENOTSUP)
    ELSE IF Mod32(address, dev.write_size) # 0 THEN NoHook(-EINVAL)
    ELSE IF Mod32(len, dev.write_size) # 0 THEN NoHook(-EINVAL)
    ELSE hook_call("write", address, len)

\* nvm_devErase with the tests of the alignment made before the test of the
\* hook
nvm_devErase_align_first(dev, address, size) ==
    IF Mod32(address, dev.erase_size) # 0 THEN NoHook(-EINVAL)
    ELSE IF Mod32(size, dev.erase_size) # 0 THEN NoHook(-EINVAL)
    ELSE IF ~dev.erase THEN NoHook(-ENOTSUP)
    ELSE hook_call("erase", address, size)

nvm_devErase(dev, address, size) ==
    IF ~dev.erase THEN NoHook(-ENOTSUP)
    ELSE IF Mod32(address, dev.erase_size) # 0 THEN NoHook(-EINVAL)
    ELSE IF Mod32(size, dev.erase_size) # 0 THEN NoHook(-EINVAL)
    ELSE hook_call("erase", address, size)

\* the access calls without `offset += np.offset`
access_address_no_part_offset(g, idx, offset, len) ==
    IF g.ret < 0 THEN [ret |-> g.ret, address |-> U32(0)]
    ELSE IF Gt32(Add32(offset, len), g.pInfo.size)
    THEN [ret |-> -EINVAL, address |-> U32(0)]
    ELSE [ret |-> 0,
          address |-> Add32(nvmTab.areas[idx + 1].baseAddr, offset)]

\* hook_ret: what the sync hook of the driver returns
nvm_devSync(dev, hook_ret) ==
    IF ~dev.sync THEN NoHook(-ENOTSUP)
    ELSE [ret |-> hook_ret, hook |-> "sync", address |-> U32(0),
          len |-> U32(0)]

\* the part the three access calls share: g what nvm_getPart returns; the
\* result is the device address of the access
access_address(g, idx, offset, len) ==
    IF g.ret < 0 THEN [ret |-> g.ret, address |-> U32(0)]
    ELSE IF Gt32(Add32(offset, len), g.pInfo.size)
    THEN [ret |-> -EINVAL, address |-> U32(0)]
    ELSE [ret |-> 0,
          address |-> Add32(nvmTab.areas[idx + 1].baseAddr,
                            Add32(offset, g.pInfo.offset))]

\* the access calls with the arithmetic of the code (nvm_read, nvm_write and
\* nvm_erase above are the same calls seen from inside one partition)
read_at(dev, a, len) ==
    IF a.ret < 0 THEN NoHook(a.ret) ELSE nvm_devRead(dev, a.address, len)
write_at(dev, a, len) ==
    IF a.ret < 0 THEN NoHook(a.ret) ELSE nvm_devWrite(dev, a.address, len)
erase_at(dev, a, size) ==
    IF a.ret < 0 THEN NoHook(a.ret) ELSE nvm_devErase(dev, a.address, size)

nvm_read_u32(dev, idx, part, offset, len) ==
    read_at(dev, access_address(nvm_getPart(idx, part, NoPart), idx, offset, len), len)
nvm_write_u32(dev, idx, part, offset, len) ==
    write_at(dev, access_address(nvm_getPart(idx, part, NoPart), idx, offset, len), len)
nvm_erase_u32(dev, idx, part, offset, size) ==
    erase_at(dev, access_address(nvm_getPart(idx, part, NoPart), idx, offset, size),
             size)

\* the access layer before its first call
NoArgs ==
    [fn |-> "none", idx |-> 0, part |-> U32(0), offset |-> U32(0),
     len |-> U32(0), hook_ret |-> 0]
NoAccess ==
    [dev |-> [name |-> "none"], mem |-> <<>>, n |-> 0,
     call |-> NoArgs, res |-> NoHook(0), pInfo |-> NoPart, before |-> NoPart,
     data |-> <<>>, want |-> <<>>, failed |-> 0]

(***************************************************************************)
(* The state machine: one device with two equal partitions, one handle,    *)
(* the client calling init, load and save, and the power supply.           *)
(***************************************************************************)
VARIABLES
    nvm,        \* the bytes of partition PART_A and PART_B
    kind,       \* the kind of device, fixed
    s,          \* the storage handle (zeroed memory while the power is off)
    phase,      \* "off": no handle, "on": handle initialised by init,
                \* "hung": inside a call that never returns
    out,        \* the last call, see Result
    hist,       \* what the save calls so far asked for, see Init
    lastWrite,  \* partition written by the previous save of the loaded handle
    nSaves, nBoots, nCrashes,
    budget,     \* the number of save calls this behaviour may make
    acc,        \* the device under the access layer and its last call
    uf          \* the user-functions scheduler, see UfStatic

vars == <<nvm, kind, s, phase, out, hist, lastWrite,
          nSaves, nBoots, nCrashes, budget, fault, acc, uf>>

F == sizeof_settings_store_t
Parts == {PART_A, PART_B}

\* partition sizes: room for exactly one store, for one store and 6 more
\* bytes, for two stores and 3 more bytes
PartSizes == {F, F + 6, 2 * F + 3}

Erased(n) == [i \in 1..n |-> 255]
AllErased == \A p \in Parts : \A i \in 1..Len(nvm[p]) : nvm[p][i] = 255

RECURSIVE FrameWrites(_, _)
FrameWrites(ops, k) ==
    IF k > Len(ops) THEN 0
    ELSE (IF ~ops[k].erase /\ Len(ops[k].data) = F THEN 1 ELSE 0)
         + FrameWrites(ops, k + 1)

(***************************************************************************)
(* out: op is the call ("init", "load", "save"), or "powerloss" for a save *)
(* cut by a power loss, or "off"; after is the call before it; ret its     *)
(* result; settings the caller's settings_t after the call; first: a load  *)
(* on a handle not yet loaded; both: that load found neither partition     *)
(* usable, or the save directly follows such a load; part, wrote, frames:  *)
(* the partition a save wrote to, whether it issued a device operation,    *)
(* and how many stores it wrote; status: the status the handle held for    *)
(* that partition when the save was called.                                *)
(***************************************************************************)
NoSettings == <<>>
Result(op, ret, settings) ==
    [op |-> op, after |-> out.op, ret |-> ret, settings |-> settings,
     first |-> FALSE, both |-> FALSE, part |-> 0, wrote |-> FALSE, frames |-> 0,
     status |-> 0]

NoCall ==
    [op |-> "none", after |-> "none", ret |-> 0, settings |-> NoSettings,
     first |-> FALSE, both |-> FALSE, part |-> 0, wrote |-> FALSE, frames |-> 0,
     status |-> 0]

(***************************************************************************)
(* hist: last and prev are the payloads of the last two save calls (the    *)
(* defaults before them); torn: the last save call was cut by a power      *)
(* loss; done: <<payload>> of the last save that returned 0; written:      *)
(* <<payload>> of the last save that returned 0 having written a store.    *)
(***************************************************************************)
NoHist ==
    [last |-> default_settings, prev |-> default_settings, torn |-> FALSE,
     done |-> <<>>, written |-> <<>>]

(***************************************************************************)
(* user_functions.c: the table of user functions and the task serving it.  *)
(* A mask of tasks is the number the code keeps (bit id for slot id); f is *)
(* "NULL" or the address "fn" of a registered function; times are in       *)
(* milliseconds.                                                           *)
(***************************************************************************)
\* the number of slots of the table (hwconfig.h, between 1 and 32)
CONFIG_USER_FUNCTIONS == 2
\* what SpecSched explores: calls of the API, and milliseconds of getTimeMs
MaxUfCalls == 4
MaxTime == 20
\* the step of the clock of the model: the shortest period of the switch
TickMs == 10
\* stands for INT64_MAX: no time of the model reaches it
INT64_MAX == 2147483647
EADDRINUSE == 98

Slots == 0..(CONFIG_USER_FUNCTIONS - 1)
Schedulings ==
    {"USER_FUNCTION_ASYNC", "USER_FUNCTION_100HZ", "USER_FUNCTION_50HZ"}

\* what the switch adds to next_exec after a call
Period(scheduling) ==
    CASE scheduling = "USER_FUNCTION_50HZ" -> 20
      [] scheduling = "USER_FUNCTION_100HZ" -> 10
      [] OTHER -> 0

HasBit(mask, id) == (mask \div (2 ^ id)) % 2 = 1
SetBit(mask, id) == IF HasBit(mask, id) THEN mask ELSE mask + 2 ^ id
ClearBit(mask, id) == IF HasBit(mask, id) THEN mask - 2 ^ id ELSE mask
\* __builtin_ctz of a mask that is not 0
ctz(mask) == CHOOSE id \in 0..31 : HasBit(mask, id) /\ \A j \in 0..(id - 1) : ~HasBit(mask, j)

(***************************************************************************)
(* uf: slot is user_functions[]; unlocked_async_tasks and expired_tasks    *)
(* the two static masks; mutex the owner of uf_mut ("free" or "task": the  *)
(* other thread holds it within one step only); signalled: uf_cond was     *)
(* signalled while the task waits on it; pc where the thread calling       *)
(* user_functions_task stands:                                             *)
(* "idle" between two calls, "lock" before pthread_mutex_lock, "loop" at   *)
(* the test of the wait loop, "wait" inside pthread_cond_timedwait,        *)
(* "timed" at line 111, "service" in the loop of line 114, "async" in the  *)
(* loop of line 141, "spin" and "fault" as described at task_wait and      *)
(* call_f; next_exec and timeout the local deadline and the timespec the   *)
(* task computed; now the value of getTimeMs; client the id a thread       *)
(* inside user_functions_trigger waits to set (NoClient: none); ret the    *)
(* result of the last API call.                                            *)
(* Not part of the program: asked, the slots user_functions_trigger was    *)
(* called for while registered and the task has not called since; owed,    *)
(* those of them whose bit the call has set; call, the last call of a      *)
(* slot's f by the task: id, the f called, by "timer" or "trigger";        *)
(* nCalls, the API calls made.                                             *)
(***************************************************************************)
\* no slot: the first id outside the table
NoClient == CONFIG_USER_FUNCTIONS
NoUfCall == [id |-> NoClient, f |-> "none", by |-> "none"]
ZeroSlot(scheduling) ==
    [f |-> "NULL", scheduling |-> scheduling, enabled |-> FALSE, next_exec |-> 0]

\* the statics of lines 36-54; zero is the scheduling whose enumerator is 0
UfStatic(zero) ==
    [slot |-> [id \in Slots |-> ZeroSlot(zero)],
     unlocked_async_tasks |-> 0, expired_tasks |-> 0,
     mutex |-> "free", pc |-> "idle", next_exec |-> 0, timeout |-> "valid",
     signalled |-> FALSE, now |-> 0, client |-> NoClient, ret |-> 0,
     asked |-> {}, owed |-> {}, call |-> NoUfCall, nCalls |-> 0]

InitCommon ==
    /\ uf = UfStatic("USER_FUNCTION_ASYNC")
    /\ kind \in DevKinds
    /\ acc = NoAccess
    /\ s = ZeroHandle
    /\ phase = "off"
    /\ out = NoCall
    /\ hist = NoHist
    /\ lastWrite = 0
    /\ nSaves = 0 /\ nBoots = 0 /\ nCrashes = 0

Init ==
    /\ \E n \in PartSizes : nvm = [p \in Parts |-> Erased(n)]
    /\ budget = MaxSaves
    /\ fault = NoFault
    /\ InitCommon

settings_storage_init ==
    /\ phase = "off"
    /\ nBoots < MaxBoots
    /\ s' = init_handle(s)
    /\ phase' = "on"
    /\ out' = Result("init", 0, NoSettings)
    /\ lastWrite' = 0
    /\ nBoots' = nBoots + 1
    /\ UNCHANGED <<uf, fault, acc, nvm, kind, hist, nSaves, nCrashes, budget>>

\* c: what load_call returns; buf: the caller's settings_t before the call
load_returns(c) ==
    /\ s' = c.s
    /\ phase' = IF c.ret = NoReturn THEN "hung" ELSE phase
    /\ \E buf \in Payloads :
          out' = [Result("load", c.ret,
                         IF c.copied THEN c.s.latest_store.settings ELSE buf)
                  EXCEPT !.first = ~s.initialized,
                         !.both = /\ ~s.initialized /\ c.ret = 0
                                  /\ c.s.part_A_status <= 0
                                  /\ c.s.part_B_status <= 0]

settings_storage_load ==
    /\ phase = "on"
    /\ load_returns(load_call(s, nvm))
    /\ UNCHANGED <<uf, fault, acc, nvm, kind, hist, lastWrite,
                   nSaves, nBoots, nCrashes, budget>>

\* the client loads before it saves, except on a device never written
MaySave == phase = "on" /\ nSaves < budget /\ (s.initialized \/ AllErased)

\* c: what save_call returns, n: the number of stores it wrote
save_returns(settings, c, n) ==
    /\ s' = c.s
    /\ nvm' = IF c.ops = <<>> THEN nvm
              ELSE [nvm EXCEPT ![c.part] =
                      ApplyOps(@, kind, c.ops, 1, StreamLen(c.ops, 1))]
    /\ out' = [Result("save", c.ret, settings)
               EXCEPT !.both = (out.op = "load" /\ out.both),
                      !.part = c.part, !.wrote = (c.ops # <<>>),
                      !.frames = n,
                      !.status = IF c.part = s.part_A THEN s.part_A_status
                                 ELSE IF c.part = s.part_B
                                 THEN s.part_B_status ELSE 0]
    /\ hist' = [last |-> settings, prev |-> hist.last, torn |-> FALSE,
                done |-> IF c.ret = 0 THEN <<settings>> ELSE hist.done,
                written |-> IF c.ret = 0 /\ n > 0
                            THEN <<settings>> ELSE hist.written]
    /\ lastWrite' = IF s.initialized /\ c.ops # <<>> THEN c.part
                    ELSE lastWrite

save_done(settings, c) == save_returns(settings, c, FrameWrites(c.ops, 1))

settings_storage_save ==
    /\ MaySave
    /\ \E settings \in Payloads :
          save_done(settings, save_call(s, settings, Len(nvm[PART_A]), kind))
    /\ nSaves' = nSaves + 1
    /\ UNCHANGED <<uf, fault, acc, kind, phase, nBoots, nCrashes, budget>>

\* c: what save_call would return; the power fails after t bytes of its byte
\* stream reached the device
save_cut(settings, c) ==
    /\ c.ops # <<>>
    /\ \E t \in 0..(StreamLen(c.ops, 1) - 1) :
          nvm' = [nvm EXCEPT ![c.part] = ApplyOps(@, kind, c.ops, 1, t)]
    /\ out' = [Result("powerloss", 0, settings)
               EXCEPT !.part = c.part, !.wrote = TRUE]
    /\ hist' = [hist EXCEPT !.last = settings, !.prev = hist.last,
                            !.torn = TRUE]

PowerLoss ==
    /\ MaySave
    /\ nCrashes < MaxCrashes
    /\ \E settings \in Payloads :
          save_cut(settings, save_call(s, settings, Len(nvm[PART_A]), kind))
    /\ s' = ZeroHandle
    /\ phase' = "off"
    /\ lastWrite' = 0
    /\ nSaves' = nSaves + 1
    /\ nCrashes' = nCrashes + 1
    /\ budget' = IF nSaves + 1 + PostCrashSaves < budget
                 THEN nSaves + 1 + PostCrashSaves ELSE budget
    /\ UNCHANGED <<uf, fault, acc, kind, nBoots>>

\* the power is switched off between two calls
PowerCycle ==
    /\ phase \in {"on", "hung"}
    /\ s' = ZeroHandle
    /\ phase' = "off"
    /\ out' = Result("off", 0, NoSettings)
    /\ lastWrite' = 0
    /\ UNCHANGED <<uf, fault, acc, nvm, kind, hist, nSaves, nBoots, nCrashes, budget>>

Next ==
    \/ settings_storage_init
    \/ settings_storage_load
    \/ settings_storage_save
    \/ PowerLoss
    \/ PowerCycle

Spec == Init /\ [][Next]_vars

(***************************************************************************)
(* The same calls over partitions that hold arbitrary contents at the      *)
(* start: up to ScanFrames records one after the other from offset 0, the  *)
(* rest erased.  A record is an intact frame, a frame of the length an     *)
(* older firmware wrote (one settings byte less), a frame with a wrong     *)
(* CRC, the header of a frame longer than this firmware's, or four bytes   *)
(* that are no magic number.                                               *)
(***************************************************************************)
ScanSize == 2 * F + 6

Frame(counter, settings) ==
    StoreBytes(update_settings_store(settings,
        [default_settings_store EXCEPT !.counter = counter - 1]))

StaleFrame(counter, settings) ==
    LET st == [MAGIC |-> MagicBytes, length |-> F - 1, counter |-> counter,
               settings |-> settings, crc |-> 0]
        body == SubSeq(StoreBytes(st), 1, F - 3)
    IN  body \o LE16(crc_ccitt(body, F - 3))

BadCrcFrame(counter, settings) ==
    LET b == Frame(counter, settings) IN
    [i \in 1..F |-> IF i = F THEN Xor8(b[i], 1) ELSE b[i]]

LongFrame(counter) ==
    MagicBytes \o LE16(F + 1) \o LE16(counter) \o [i \in 1..(F - 7) |-> 0]

PayloadX == [default_settings EXCEPT ![1] = 60]
PayloadY == [default_settings EXCEPT ![1] = 255]

\* the records partition p may hold: equal counters come with different
\* payloads in the two partitions
Records(p) ==
    LET mine == IF p = PART_A THEN PayloadY ELSE PayloadX
        other == IF p = PART_A THEN PayloadX ELSE PayloadY
    IN  {Frame(1, other), Frame(2, mine), StaleFrame(2, other),
         BadCrcFrame(3, PayloadX), LongFrame(3), <<1, 2, 3, 4>>, ErasedWord}

RECURSIVE Contents(_, _)
Contents(p, n) ==
    IF n = 0 THEN {<<>>}
    ELSE Contents(p, n - 1)
         \cup {c \o r : c \in {x \in Contents(p, n - 1) : Len(x) > 0 \/ n = 1},
                        r \in Records(p)}

Filled(c) == [i \in 1..ScanSize |-> IF i <= Len(c) THEN c[i] ELSE 255]

InitScan ==
    /\ \E a \in Contents(PART_A, ScanFrames), b \in Contents(PART_B, ScanFrames) :
          nvm = [p \in Parts |-> IF p = PART_A THEN Filled(a) ELSE Filled(b)]
    /\ kind = "flash"
    /\ budget = ScanSaves
    /\ fault = NoFault
    /\ InitCommon

NextScan ==
    \/ settings_storage_init
    \/ settings_storage_load
    \/ settings_storage_save
    \/ PowerCycle

SpecScan == InitScan /\ [][NextScan]_vars

(***************************************************************************)
(* SpecFault: the three calls on a device one of whose hooks fails.  The   *)
(* hook fails for every access, or for the accesses that touch the payload *)
(* and the CRC of a frame at offset 0; it returns -EIO (5) or -EILSEQ.     *)
(* The hook may recover between two calls.                                 *)
(***************************************************************************)
HookErrors == {5, EILSEQ}
FaultRanges == {<<0, ScanSize>>, <<8, F>>}
Faults ==
    {[op |-> o, lo |-> r[1], hi |-> r[2], err |-> e, ub |-> NoReturn] :
        o \in {"read", "write", "erase"}, r \in FaultRanges, e \in HookErrors}

FaultContents(p) ==
    {<<>>,
     Frame(2, IF p = PART_A THEN PayloadY ELSE PayloadX),
     Frame(1, PayloadX) \o Frame(2, PayloadY),
     StaleFrame(2, PayloadX),
     BadCrcFrame(3, PayloadX)}

InitFault ==
    /\ \E a \in FaultContents(PART_A), b \in FaultContents(PART_B) :
          nvm = [p \in Parts |-> IF p = PART_A THEN Filled(a) ELSE Filled(b)]
    /\ fault \in Faults
    /\ budget = FaultSaves
    /\ InitCommon

HookRecovers ==
    /\ fault # NoFault
    /\ phase = "on"
    /\ fault' = NoFault
    /\ UNCHANGED <<uf, acc, nvm, kind, s, phase, out, hist, lastWrite,
                   nSaves, nBoots, nCrashes, budget>>

NextFault ==
    \/ settings_storage_init
    \/ settings_storage_load
    \/ settings_storage_save
    \/ PowerCycle
    \/ HookRecovers

SpecFault == InitFault /\ [][NextFault]_vars

(***************************************************************************)
(* SpecWrap: the same calls on a handle that has made 65534 writing saves  *)
(* since its load on an erased device.  The store written last, counter    *)
(* 65534, is the only one in partition A, the store of counter 65533 the   *)
(* only one in partition B (each partition was erased when it was full),   *)
(* and the handle caches the store of counter 65534.                       *)
(***************************************************************************)
LastCounter == 65535

InitWrap ==
    /\ \E n \in PartSizes, a \in Payloads, b \in Payloads :
          /\ nvm = [p \in Parts |->
                      [i \in 1..n |->
                          IF i > F THEN 255
                          ELSE IF p = PART_A THEN Frame(LastCounter - 1, a)[i]
                          ELSE Frame(LastCounter - 2, b)[i]]]
          /\ s = [init_handle(ZeroHandle) EXCEPT
                    !.initialized = TRUE,
                    !.latest_store =
                        update_settings_store(a,
                            [default_settings_store EXCEPT
                                !.counter = LastCounter - 2]),
                    !.part_A_offset = F, !.part_A_status = 1,
                    !.part_B_offset = F, !.part_B_status = 1]
          /\ hist = [NoHist EXCEPT !.last = a, !.prev = b]
    /\ kind \in DevKinds
    /\ acc = NoAccess
    /\ fault = NoFault
    /\ phase = "on"
    /\ uf = UfStatic("USER_FUNCTION_ASYNC")
    /\ out = NoCall
    /\ lastWrite = PART_A
    /\ nSaves = 0 /\ nBoots = 1 /\ nCrashes = 0
    /\ budget = MaxSaves

SpecWrap == InitWrap /\ [][NextScan]_vars

(***************************************************************************)
(* SpecHeader: the same calls over partitions whose last record is a       *)
(* header with the magic number and a length field too small for a frame   *)
(* (0, 1, 8 or 9), alone or behind an intact frame, the rest erased.  The   *)
(* scan steps over a header by its length: behind a length of 8 or 9 it    *)
(* finds erased bytes, and the header is read as the last store.           *)
(***************************************************************************)
ShortLengths == {0, 1, 8, 9}
WrappedReads == {0, -5, NoReturn}

ShortHeader(length) == MagicBytes \o LE16(length) \o LE16(3)

HeaderContents(p) ==
    {pre \o h :
        pre \in {<<>>, Frame(2, IF p = PART_A THEN PayloadY ELSE PayloadX)},
        h \in {<<>>} \cup {ShortHeader(n) : n \in ShortLengths}}

InitHeader ==
    /\ \E a \in HeaderContents(PART_A), b \in HeaderContents(PART_B) :
          nvm = [p \in Parts |-> IF p = PART_A THEN Filled(a) ELSE Filled(b)]
    /\ \E o \in WrappedReads : fault = [NoFault EXCEPT !.ub = o]
    /\ kind = "flash"
    /\ budget = ScanSaves
    /\ InitCommon

SpecHeader == InitHeader /\ [][NextScan]_vars

(***************************************************************************)
(* SpecAccess: calls of the access layer and of the device layer on one    *)
(* device.  acc.mem is the device memory (a write stores zeros, the hook   *)
(* of a flash clears bits), acc.call the last call and its result.         *)
(***************************************************************************)
IdxArgs == {0, 1}
PartArgs == {U32(0), U32(1), U32(2), U32(3), Max32}
OffsetArgs == {U32(0), U32(2), U32(3), U32(4), U32(6), <<Half - 1, Half - 2>>}
LenArgs == {U32(1), U32(2), U32(4), U32(8), Max32}
AddrArgs == {U32(8), U32(9), U32(10), U32(12), U32(22), Max32}

\* the device memory after a call with result r
mem_after(mem, r) ==
    IF r.ret # 0 \/ r.hook \in {"none", "read", "sync"} THEN mem
    ELSE [i \in 1..DevSize |->
            IF r.address[2] < i /\ i <= r.address[2] + r.len[2]
            THEN (IF r.hook = "erase" THEN 255 ELSE 0)
            ELSE mem[i]]

\* acc after the call returned r
after_call(fn, idx, part, offset, len, r) ==
    [acc EXCEPT !.mem = mem_after(@, r), !.n = @ + 1,
                !.call = [fn |-> fn, idx |-> idx, part |-> part,
                          offset |-> offset, len |-> len, hook_ret |-> 0],
                !.res = r]

call_nvm_read ==
    /\ acc.n < MaxCalls
    /\ \E idx \in IdxArgs, part \in PartArgs, offset \in OffsetArgs,
          len \in LenArgs :
          acc' = after_call("nvm_read", idx, part, offset, len,
                            nvm_read_u32(acc.dev, idx, part, offset, len))
    /\ UNCHANGED <<uf, nvm, kind, s, phase, out, hist, lastWrite,
                   nSaves, nBoots, nCrashes, budget, fault>>

call_nvm_write ==
    /\ acc.n < MaxCalls
    /\ \E idx \in IdxArgs, part \in PartArgs, offset \in OffsetArgs,
          len \in LenArgs :
          acc' = after_call("nvm_write", idx, part, offset, len,
                            nvm_write_u32(acc.dev, idx, part, offset, len))
    /\ UNCHANGED <<uf, nvm, kind, s, phase, out, hist, lastWrite,
                   nSaves, nBoots, nCrashes, budget, fault>>

call_nvm_erase ==
    /\ acc.n < MaxCalls
    /\ \E idx \in IdxArgs, part \in PartArgs, offset \in OffsetArgs,
          len \in LenArgs :
          acc' = after_call("nvm_erase", idx, part, offset, len,
                            nvm_erase_u32(acc.dev, idx, part, offset, len))
    /\ UNCHANGED <<uf, nvm, kind, s, phase, out, hist, lastWrite,
                   nSaves, nBoots, nCrashes, budget, fault>>

\* the records a caller may hand to nvm_getPart
PartRecords == {NoPart, [offset |-> U32(3), size |-> U32(5)]}

\* acc after nvm_getPart, called with the record `before`, returned g
after_getPart(idx, part, before, g) ==
    [after_call("nvm_getPart", idx, part, U32(0), U32(0), NoHook(g.ret))
        EXCEPT !.before = before, !.pInfo = g.pInfo]

call_nvm_getPart ==
    /\ acc.n < MaxCalls
    /\ \E idx \in IdxArgs, part \in PartArgs, before \in PartRecords :
          acc' = after_getPart(idx, part, before,
                               nvm_getPart(idx, part, before))
    /\ UNCHANGED <<uf, nvm, kind, s, phase, out, hist, lastWrite,
                   nSaves, nBoots, nCrashes, budget, fault>>

\* the device layer called directly, as the driver test does
call_nvm_devWrite ==
    /\ acc.n < MaxCalls
    /\ \E address \in AddrArgs, len \in LenArgs :
          acc' = after_call("nvm_devWrite", 0, U32(0), address, len,
                            nvm_devWrite(acc.dev, address, len))
    /\ UNCHANGED <<uf, nvm, kind, s, phase, out, hist, lastWrite,
                   nSaves, nBoots, nCrashes, budget, fault>>

call_nvm_devErase ==
    /\ acc.n < MaxCalls
    /\ \E address \in AddrArgs, len \in LenArgs :
          acc' = after_call("nvm_devErase", 0, U32(0), address, len,
                            nvm_devErase(acc.dev, address, len))
    /\ UNCHANGED <<uf, nvm, kind, s, phase, out, hist, lastWrite,
                   nSaves, nBoots, nCrashes, budget, fault>>

\* what the sync hook of a driver may return
SyncResults == {0, -5}

\* acc after nvm_devSync, its hook returning hook_ret, returned r
after_sync(hook_ret, r) ==
    [after_call("nvm_devSync", 0, U32(0), U32(0), U32(0), r)
        EXCEPT !.call.hook_ret = hook_ret]

call_nvm_devSync ==
    /\ acc.n < MaxCalls
    /\ \E hook_ret \in SyncResults :
          acc' = after_sync(hook_ret, nvm_devSync(acc.dev, hook_ret))
    /\ UNCHANGED <<uf, nvm, kind, s, phase, out, hist, lastWrite,
                   nSaves, nBoots, nCrashes, budget, fault>>

InitAccess ==
    /\ \E d \in Devices :
          acc = [NoAccess EXCEPT !.dev = d, !.mem = Erased(DevSize)]
    /\ uf = UfStatic("USER_FUNCTION_ASYNC")
    /\ nvm = [p \in Parts |-> Erased(F)]
    /\ kind = "flash"
    /\ s = ZeroHandle
    /\ phase = "off"
    /\ out = NoCall
    /\ hist = NoHist
    /\ lastWrite = 0
    /\ nSaves = 0 /\ nBoots = 0 /\ nCrashes = 0
    /\ budget = 0
    /\ fault = NoFault

NextAccess ==
    \/ call_nvm_read
    \/ call_nvm_write
    \/ call_nvm_erase
    \/ call_nvm_getPart
    \/ call_nvm_devWrite
    \/ call_nvm_devErase
    \/ call_nvm_devSync

SpecAccess == InitAccess /\ [][NextAccess]_vars

(***************************************************************************)
(* The flash driver and its test.  The device is the internal flash of the *)
(* STM32H7 scaled down: DevSize bytes in two banks, sectors of erase_size  *)
(* bytes, flash words of write_size bytes.  The test erases, writes        *)
(* consecutive numbers, makes calls that must fail, and reads back.        *)
(***************************************************************************)
FlashDev == CHOOSE d \in Devices : d.name = "flash"
BankSplit == DevSize \div 2
SectorsPerBank == BankSplit \div FlashDev.erase_size

\* flash_eraseSector without the bank: the sector is always one of bank 1
flash_eraseSector_ignores_bank(mem, secNum) ==
    LET sec == secNum % SectorsPerBank
        first == sec * FlashDev.erase_size
    IN  IF sec > SectorsPerBank - 1 THEN [ok |-> FALSE, mem |-> mem]
        ELSE [ok |-> TRUE,
              mem |-> [i \in 1..Len(mem) |->
                         IF first < i /\ i <= first + FlashDev.erase_size
                         THEN 255 ELSE mem[i]]]

\* flash_eraseSector and flash_eraseSector_bank: the sector secNum of the
\* device reads 0xFF afterwards
flash_eraseSector(mem, secNum) ==
    LET sec == secNum % SectorsPerBank
        bank == 1 + (secNum \div SectorsPerBank)
        first == ((bank - 1) * SectorsPerBank + sec) * FlashDev.erase_size
    IN  IF sec > SectorsPerBank - 1 \/ bank \notin {1, 2}
        THEN [ok |-> FALSE, mem |-> mem]
        ELSE [ok |-> TRUE,
              mem |-> [i \in 1..Len(mem) |->
                         IF first < i /\ i <= first + FlashDev.erase_size
                         THEN 255 ELSE mem[i]]]

\* flash_write with the second memcpy reading the buffer from its start
flash_write_buf_not_advanced(mem, address, data) ==
    LET len == Len(data)
        bank1_len == IF address >= BankSplit THEN 0
                     ELSE IF BankSplit - address > len THEN len
                     ELSE BankSplit - address
    IN  IF len = 0 THEN [ok |-> FALSE, mem |-> mem]
        ELSE IF address % FlashDev.write_size # 0
                \/ len % FlashDev.write_size # 0
        THEN [ok |-> FALSE, mem |-> mem]
        ELSE [ok |-> TRUE,
              mem |-> [i \in 1..Len(mem) |->
                         IF address < i /\ i <= address + bank1_len
                         THEN And8(mem[i], data[i - address])
                         ELSE IF address + bank1_len < i /\ i <= address + len
                         THEN And8(mem[i], data[i - address - bank1_len])
                         ELSE mem[i]]]

\* flash_write: the bytes up to the end of bank 1 are programmed first, the
\* rest in bank 2; programming clears bits
flash_write(mem, address, data) ==
    LET len == Len(data)
        bank1_len == IF address >= BankSplit THEN 0
                     ELSE IF BankSplit - address > len THEN len
                     ELSE BankSplit - address
    IN  IF len = 0 THEN [ok |-> FALSE, mem |-> mem]
        ELSE IF address % FlashDev.write_size # 0
                \/ len % FlashDev.write_size # 0
        THEN [ok |-> FALSE, mem |-> mem]
        ELSE [ok |-> TRUE,
              mem |-> [i \in 1..Len(mem) |->
                         IF address < i /\ i <= address + bank1_len
                         THEN And8(mem[i], data[i - address])
                         ELSE IF address + bank1_len < i /\ i <= address + len
                         THEN And8(mem[i], data[i - address])
                         ELSE mem[i]]]

\* the erase hook of the driver: the sectors of [address, address + size)
\* are erased one after the other
RECURSIVE flash_erase(_, _, _)
flash_erase(mem, secNum, count) ==
    IF count = 0 THEN mem
    ELSE flash_erase(flash_eraseSector(mem, secNum).mem, secNum + 1, count - 1)

\* the memory of the flash after the device call that returned r
flash_after(mem, r, data) ==
    IF r.ret # 0 \/ r.hook \in {"none", "read", "sync"} THEN mem
    ELSE IF r.hook = "erase"
    THEN flash_erase(mem, r.address[2] \div FlashDev.erase_size,
                     r.len[2] \div FlashDev.erase_size)
    ELSE flash_write(mem, r.address[2], data).mem

\* the buffer after the call: what a read that succeeded copied from the
\* flash, the buffer of the caller otherwise
buffer_after(mem, r, data) ==
    IF r.ret = 0 /\ r.hook = "read"
    THEN SubSeq(mem, r.address[2] + 1, r.address[2] + r.len[2])
    ELSE data

\* what the test expects to read at every address: the byte it wrote into
\* erased flash, -1 where it expects nothing
want_after(want, mem, r, data) ==
    IF r.ret # 0 \/ r.hook \in {"none", "read", "sync"} THEN want
    ELSE [i \in 1..Len(mem) |->
            IF r.address[2] < i /\ i <= r.address[2] + r.len[2]
            THEN (IF r.hook = "write" /\ mem[i] = 255
                  THEN data[i - r.address[2]] ELSE -1)
            ELSE want[i]]

\* acc after the test called fn with address, len and the buffer data and
\* got r
after_test(fn, address, len, data, r) ==
    [acc EXCEPT !.mem = flash_after(@, r, data), !.n = @ + 1,
                !.call = [NoArgs EXCEPT !.fn = fn, !.offset = U32(address),
                                        !.len = U32(len)],
                !.res = r,
                !.data = buffer_after(acc.mem, r, data),
                !.want = want_after(@, acc.mem, r, data),
                !.failed = IF r.ret # 0 THEN 1 ELSE @]

\* the buffers of the test: consecutive numbers, and zeros
TestBuffers(address, len) ==
    {[k \in 1..len |-> address + k], [k \in 1..len |-> 0]}

test_devErase ==
    /\ acc.n < MaxDevCalls
    /\ \E address \in {8, 9, 12, DevSize - 4}, size \in {2, 4, 8} :
          acc' = after_test("nvm_devErase", address, size, <<>>,
                            nvm_devErase(acc.dev, U32(address), U32(size)))
    /\ UNCHANGED <<uf, nvm, kind, s, phase, out, hist, lastWrite,
                   nSaves, nBoots, nCrashes, budget, fault>>

test_devWrite ==
    /\ acc.n < MaxDevCalls
    /\ \E address \in {10, 11, 12, 14, DevSize - 2}, len \in {1, 2, 4} :
          \E data \in TestBuffers(address, len) :
             acc' = after_test("nvm_devWrite", address, len, data,
                               nvm_devWrite(acc.dev, U32(address), U32(len)))
    /\ UNCHANGED <<uf, nvm, kind, s, phase, out, hist, lastWrite,
                   nSaves, nBoots, nCrashes, budget, fault>>

test_devRead ==
    /\ acc.n < MaxDevCalls
    /\ \E address \in {10, 11, 12, 13, 14, 15, DevSize - 2}, len \in {1, 4} :
          acc' = after_test("nvm_devRead", address, len, [k \in 1..len |-> 0],
                            nvm_devRead(acc.dev, U32(address), U32(len)))
    /\ UNCHANGED <<uf, nvm, kind, s, phase, out, hist, lastWrite,
                   nSaves, nBoots, nCrashes, budget, fault>>

\* the flash when the test starts: erased, or holding what was there
OldFlash == [i \in 1..DevSize |-> 64 + i]

InitDevice ==
    /\ \E mem \in {Erased(DevSize), OldFlash} :
          acc = [NoAccess EXCEPT !.dev = FlashDev, !.mem = mem,
                                 !.want = [i \in 1..DevSize |-> -1]]
    /\ uf = UfStatic("USER_FUNCTION_ASYNC")
    /\ nvm = [p \in Parts |-> Erased(F)]
    /\ kind = "flash"
    /\ s = ZeroHandle
    /\ phase = "off"
    /\ out = NoCall
    /\ hist = NoHist
    /\ lastWrite = 0
    /\ nSaves = 0 /\ nBoots = 0 /\ nCrashes = 0
    /\ budget = 0
    /\ fault = NoFault

NextDevice ==
    \/ test_devErase
    \/ test_devWrite
    \/ test_devRead

SpecDevice == InitDevice /\ [][NextDevice]_vars

(***************************************************************************)
(* The user-functions scheduler: one thread calls user_functions_task in a *)
(* loop, one other thread calls the API.  The task is cut into steps where *)
(* the other thread can run in between: the computation of the timeout,    *)
(* which reads the table without the mutex, the lock, each turn of the     *)
(* wait loop, and each call of a function.                                 *)
(***************************************************************************)
storage == <<nvm, kind, s, phase, out, hist, lastWrite,
             nSaves, nBoots, nCrashes, budget, fault, acc>>

\* the for loop of lines 74-88, from slot i on
RECURSIVE compute_timeout(_, _, _)
compute_timeout(i, next_exec, expired_tasks) ==
    IF i >= CONFIG_USER_FUNCTIONS
    THEN [next_exec |-> next_exec, expired_tasks |-> expired_tasks]
    ELSE IF uf.slot[i].enabled /\ uf.slot[i].scheduling # "USER_FUNCTION_ASYNC"
    THEN IF uf.slot[i].next_exec < next_exec
         THEN compute_timeout(i + 1, uf.slot[i].next_exec, 2 ^ i)
         ELSE IF uf.slot[i].next_exec = next_exec
         THEN compute_timeout(i + 1, next_exec, SetBit(expired_tasks, i))
         ELSE compute_timeout(i + 1, next_exec, expired_tasks)
    ELSE compute_timeout(i + 1, next_exec, expired_tasks)

\* lines 90-98: with no enabled periodic slot the product
\* (INT64_MAX - getTimeMs()) * 1000000 overflows a long long, and the
\* timespec is whatever the build makes of it: a time pthread_cond_timedwait
\* takes ("valid", a deadline already passed included) or one it rejects
\* ("invalid": a tv_nsec outside 0..999999999)
Timeouts(next_exec) ==
    IF next_exec = INT64_MAX THEN {"valid", "invalid"} ELSE {"valid"}

\* user_functions_task, lines 69-98
task_compute ==
    /\ uf.pc = "idle"
    /\ \E timeout \in {"valid", "invalid"} :
          /\ timeout \in Timeouts(compute_timeout(0, INT64_MAX, uf.expired_tasks).next_exec)
          /\ uf' = [uf EXCEPT
                      !.pc = "lock",
                      !.next_exec = compute_timeout(0, INT64_MAX, uf.expired_tasks).next_exec,
                      !.expired_tasks = compute_timeout(0, INT64_MAX, uf.expired_tasks).expired_tasks,
                      !.timeout = timeout]
    /\ UNCHANGED storage

\* line 100
task_lock ==
    /\ uf.pc = "lock"
    /\ uf.mutex = "free"
    /\ uf' = [uf EXCEPT !.pc = "loop", !.mutex = "task"]
    /\ UNCHANGED storage

\* lines 106-108, the test of the loop and the call of pthread_cond_timedwait:
\* it releases the mutex and blocks, or, given a timespec it rejects, returns
\* EINVAL at once with the mutex held; nothing the loop tests can change
\* then, and the task turns in the loop for ever ("spin")
task_wait ==
    /\ uf.pc = "loop"
    /\ uf' = IF uf.unlocked_async_tasks = 0 /\ uf.now < uf.next_exec
             THEN IF uf.timeout = "invalid"
                  THEN [uf EXCEPT !.pc = "spin"]
                  ELSE [uf EXCEPT !.pc = "wait", !.mutex = "free", !.signalled = FALSE]
             ELSE [uf EXCEPT !.pc = "timed"]
    /\ UNCHANGED storage

\* line 108, pthread_cond_timedwait returns with the mutex: it was
\* signalled or its deadline has passed
task_wake ==
    /\ uf.pc = "wait"
    /\ uf.mutex = "free"
    /\ uf.signalled \/ uf.now >= uf.next_exec
    /\ uf' = [uf EXCEPT !.pc = "loop", !.mutex = "task", !.signalled = FALSE]
    /\ UNCHANGED storage

\* line 108, a spurious wake-up, or the passed deadline of a timespec
\* computed with the overflow
task_wake_spurious ==
    /\ uf.pc = "wait"
    /\ uf.mutex = "free"
    /\ ~(uf.signalled \/ uf.now >= uf.next_exec)
    /\ uf' = [uf EXCEPT !.pc = "loop", !.mutex = "task"]
    /\ UNCHANGED storage

\* line 111
task_timed ==
    /\ uf.pc = "timed"
    /\ uf' = [uf EXCEPT !.pc = IF uf.now >= uf.next_exec THEN "service" ELSE "async"]
    /\ UNCHANGED storage

\* user_functions[id].f(user_functions[id].arg), lines 118 and 145: the call
\* of a function returns; the call of NULL is a jump to address 0, after
\* which the task does not go on ("fault")
call_f(u, id, by) ==
    IF u.slot[id].f = "NULL"
    THEN [u EXCEPT !.pc = "fault", !.call = [id |-> id, f |-> "NULL", by |-> by]]
    ELSE [u EXCEPT !.call = [id |-> id, f |-> u.slot[id].f, by |-> by],
                   !.asked = IF by = "trigger" THEN @ \ {id} ELSE @,
                   !.owed = IF by = "trigger" THEN @ \ {id} ELSE @]

\* lines 119-137, after a call that returned
next_period(u, id) ==
    IF u.pc = "fault" THEN u
    ELSE [u EXCEPT !.slot[id].next_exec = @ + Period(u.slot[id].scheduling)]

\* one turn of the loop of lines 114-138
task_service ==
    /\ uf.pc = "service"
    /\ uf' = IF uf.expired_tasks = 0
             THEN [uf EXCEPT !.pc = "async"]
             ELSE next_period(
                      call_f([uf EXCEPT !.expired_tasks = ClearBit(@, ctz(uf.expired_tasks))],
                             ctz(uf.expired_tasks), "timer"),
                      ctz(uf.expired_tasks))
    /\ UNCHANGED storage

\* one turn of the loop of lines 141-146, and lines 148-149 after it
task_async ==
    /\ uf.pc = "async"
    /\ uf' = IF uf.unlocked_async_tasks = 0
             THEN [uf EXCEPT !.pc = "idle", !.mutex = "free"]
             ELSE call_f([uf EXCEPT !.unlocked_async_tasks = ClearBit(@, ctz(uf.unlocked_async_tasks))],
                         ctz(uf.unlocked_async_tasks), "trigger")
    /\ UNCHANGED storage

\* the other thread is outside the API and may call it
MayCall == uf.client = NoClient /\ uf.nCalls < MaxUfCalls
Called(u, ret) == [u EXCEPT !.ret = ret, !.nCalls = @ + 1]

user_functions_add(id, scheduling) ==
    /\ MayCall
    /\ uf' = IF id >= CONFIG_USER_FUNCTIONS THEN Called(uf, EINVAL)
             ELSE IF uf.slot[id].f # "NULL" THEN Called(uf, EADDRINUSE)
             ELSE Called([uf EXCEPT !.slot[id] =
                             [f |-> "fn", scheduling |-> scheduling,
                              enabled |-> FALSE, next_exec |-> uf.now]], 0)
    /\ UNCHANGED storage

user_functions_remove(id) ==
    /\ MayCall
    /\ uf' = IF id >= CONFIG_USER_FUNCTIONS THEN Called(uf, EINVAL)
             ELSE Called([uf EXCEPT !.slot[id].f = "NULL",
                                    !.slot[id].enabled = FALSE], 0)
    /\ UNCHANGED storage

user_functions_enable(id) ==
    /\ MayCall
    /\ uf' = IF id >= CONFIG_USER_FUNCTIONS THEN Called(uf, EINVAL)
             ELSE Called([uf EXCEPT !.slot[id].enabled = TRUE], 0)
    /\ UNCHANGED storage

user_functions_disable(id) ==
    /\ MayCall
    /\ uf' = IF id >= CONFIG_USER_FUNCTIONS THEN Called(uf, EINVAL)
             ELSE Called([uf EXCEPT !.slot[id].enabled = FALSE], 0)
    /\ UNCHANGED storage

\* user_functions_trigger up to pthread_mutex_lock, lines 178-183
user_functions_trigger(id) ==
    /\ MayCall
    /\ uf' = IF id >= CONFIG_USER_FUNCTIONS THEN Called(uf, EINVAL)
             ELSE [uf EXCEPT !.client = id, !.nCalls = @ + 1,
                             !.asked = IF uf.slot[id].f # "NULL" THEN @ \cup {id} ELSE @]
    /\ UNCHANGED storage

\* user_functions_trigger with the mutex, lines 183-188; a signal wakes the
\* task when it waits and is lost when it does not
trigger_locked ==
    /\ uf.client # NoClient
    /\ uf.mutex = "free"
    /\ uf' = [uf EXCEPT !.unlocked_async_tasks = SetBit(@, uf.client),
                        !.signalled = (uf.pc = "wait"),
                        !.owed = @ \cup ({uf.client} \cap uf.asked),
                        !.client = NoClient, !.ret = 0]
    /\ UNCHANGED storage

\* getTimeMs goes on
Tick ==
    /\ uf.now + TickMs <= MaxTime
    /\ uf' = [uf EXCEPT !.now = @ + TickMs]
    /\ UNCHANGED storage

InitSched ==
    /\ \E zero \in Schedulings : uf = UfStatic(zero)
    /\ nvm = [p \in Parts |-> Erased(F)]
    /\ kind = "flash"
    /\ acc = NoAccess
    /\ s = ZeroHandle
    /\ phase = "off"
    /\ out = NoCall
    /\ hist = NoHist
    /\ lastWrite = 0
    /\ nSaves = 0 /\ nBoots = 0 /\ nCrashes = 0
    /\ budget = 0
    /\ fault = NoFault

\* the steps of the thread that calls user_functions_task
TaskNext ==
    \/ task_compute
    \/ task_lock
    \/ task_wait
    \/ task_wake
    \/ task_timed
    \/ task_service
    \/ task_async

NextSched ==
    \/ TaskNext
    \/ task_wake_spurious
    \/ \E id \in 0..CONFIG_USER_FUNCTIONS :
          \/ \E scheduling \in Schedulings : user_functions_add(id, scheduling)
          \/ user_functions_remove(id)
          \/ user_functions_enable(id)
          \/ user_functions_disable(id)
          \/ user_functions_trigger(id)
    \/ trigger_locked
    \/ Tick

SpecSched == InitSched /\ [][NextSched]_vars

\* the task's thread is scheduled again and again, and a thread that asks
\* for the mutex gets it
SpecSchedFair ==
    InitSched /\ [][NextSched]_vars /\ WF_vars(TaskNext) /\ SF_vars(trigger_locked)

(***************************************************************************)
(* What the partitions hold, read byte by byte and without the scan.       *)
(***************************************************************************)
\* a frame with the magic number, a length this firmware reads and a CRC
\* that matches lies at off
IntactAt(mem, off) ==
    /\ off + 8 <= Len(mem)
    /\ SubSeq(mem, off + 1, off + 4) = MagicBytes
    /\ LET L == U16(mem, off + 5) IN
          /\ L >= 10 /\ L <= F /\ off + L <= Len(mem)
          /\ U16(mem, off + L - 1)
                = crc_ccitt(SubSeq(mem, off + 1, off + L - 2), L - 2)

CounterAt(mem, off) == U16(mem, off + 7)

\* the settings of the frame at off, the defaults where the frame is short
PayloadAt(mem, off) ==
    [i \in 1..sizeof_settings_t |->
        IF i <= U16(mem, off + 5) - 10 THEN mem[off + 8 + i]
        ELSE default_settings[i]]

IntactFrames ==
    {po \in Parts \X (0..(Len(nvm[PART_A]) - 10)) : IntactAt(nvm[po[1]], po[2])}

NewestFrames ==
    {po \in IntactFrames :
        \A qo \in IntactFrames :
            CounterAt(nvm[qo[1]], qo[2]) <= CounterAt(nvm[po[1]], po[2])}

\* a load that scanned the partitions (the handle was not loaded before)
FreshLoad == out.op = "load" /\ out.first

\* a load that is the first call on a handle after init
LoadAfterInit == FreshLoad /\ out.after = "init"

(***************************************************************************)
(* C1.  Power-loss durability: after saves S1..Sn, the byte stream of the  *)
(* device operations cut at one point at most (inside Sn), a load on a     *)
(* fresh handle returns 0 and the caller's settings are Sn or Sn-1 (the    *)
(* defaults before S1).                                                    *)
(***************************************************************************)
C1_PowerLossDurability ==
    (LoadAfterInit /\ nSaves >= 1 /\ (nCrashes = 0 \/ hist.torn))
        => /\ out.ret = 0
           /\ out.settings \in {hist.last, hist.prev}

(***************************************************************************)
(* C2.  Once a save has returned 0 having written a frame, and no power    *)
(* loss since, a load on a fresh handle returns 0 with the payload of the  *)
(* newest frame written.                                                   *)
(***************************************************************************)
C2_FreshLoadSeesWrittenFrame ==
    (LoadAfterInit /\ nCrashes = 0 /\ hist.written # <<>>)
        => /\ out.ret = 0
           /\ out.settings = hist.written[1]

(***************************************************************************)
(* C3.  Round trip: zeroed handle, erased partitions, init; save(S); load  *)
(* returns 0 and the caller's settings equal S.                            *)
(***************************************************************************)
C3_RoundTrip ==
    (FreshLoad /\ out.after = "save" /\ nSaves = 1 /\ nBoots = 1 /\ nCrashes = 0)
        => /\ out.ret = 0
           /\ out.settings = hist.last

(***************************************************************************)
(* C4.  Whatever the two partitions hold, the first load on a fresh handle *)
(* returns 0 with the payload of an intact frame of the greatest counter   *)
(* found in the two partitions, or with the defaults when there is no      *)
(* intact frame.                                                           *)
(***************************************************************************)
C4_NewestIntactOrDefaults ==
    (FreshLoad /\ nSaves = 0)
        => /\ out.ret = 0
           /\ IF IntactFrames = {} THEN out.settings = default_settings
              ELSE \E po \in NewestFrames :
                      out.settings = PayloadAt(nvm[po[1]], po[2])

(***************************************************************************)
(* C5.  Once a save has written a frame, in every state of the device,     *)
(* those inside a later save included, one of the partitions holds an      *)
(* intact frame with the payload of the last save that returned 0.         *)
(***************************************************************************)
C5_OneIntactCopy ==
    (hist.written # <<>> /\ hist.done # <<>>)
        => \E po \in IntactFrames : PayloadAt(nvm[po[1]], po[2]) = hist.done[1]

\* a step that is one save call, completed or cut by a power loss
SaveStep == nSaves' = nSaves + 1
SaveReturns == SaveStep /\ out'.op = "save"

\* the partition the parity of the counter names
ParityPart(counter) == IF counter % 2 = 1 THEN PART_B ELSE PART_A
OtherPart(p) == IF p = PART_A THEN PART_B ELSE PART_A

\* the handle's offset and status of partition p
PartFields(h, p) ==
    IF p = PART_A THEN <<h.part_A_offset, h.part_A_status>>
    ELSE <<h.part_B_offset, h.part_B_status>>

(***************************************************************************)
(* C6.  A save call changes at most one partition: the one the parity of   *)
(* the counter it writes names.  The bytes of the other partition and the  *)
(* handle's offset and status of the other partition stay as they were.    *)
(* A save cut by a power loss changes at most one partition too.           *)
(***************************************************************************)
C6_SaveTouchesOnePartition ==
    [][/\ SaveReturns =>
            LET other == OtherPart(ParityPart(s'.latest_store.counter)) IN
            /\ nvm'[other] = nvm[other]
            /\ PartFields(s', other) = PartFields(s, other)
            /\ out'.wrote => out'.part = OtherPart(other)
       /\ (SaveStep /\ out'.op = "powerloss") =>
            /\ nvm'[OtherPart(out'.part)] = nvm[OtherPart(out'.part)]
      ]_vars

\* a save wrote partition A while partition B held a frame
C6_Witness ==
    /\ out.op = "save" /\ out.wrote /\ out.part = PART_A
    /\ IntactAt(nvm[PART_B], 0)

(***************************************************************************)
(* C7.  Alternation: on a loaded handle a save whose payload differs from  *)
(* the cached settings and that returns 0 writes one frame, its counter    *)
(* the cached counter plus one, to B when that counter is odd and to A     *)
(* when it is even, and never to the partition the save before it wrote.   *)
(***************************************************************************)
C7_Alternation ==
    [][(/\ SaveReturns /\ s.initialized /\ out'.ret = 0
        /\ out'.settings # s.latest_store.settings)
        => /\ out'.frames = 1
           /\ s'.latest_store.counter = s.latest_store.counter + 1
           /\ out'.part = ParityPart(s'.latest_store.counter)
           /\ lastWrite # 0 => out'.part # lastWrite
      ]_vars

\* the third of three saves in a row wrote partition B
C7_Witness ==
    /\ out.op = "save" /\ out.after = "save" /\ out.frames = 1
    /\ s.initialized /\ hist.last # hist.prev
    /\ out.part = PART_B /\ s.latest_store.counter = 3

(***************************************************************************)
(* C8.  Idempotent save, on a loaded handle with write_needed false: a     *)
(* save whose payload differs from the cached settings writes one frame    *)
(* and adds one to the counter; a save whose payload equals the cached     *)
(* settings issues no device operation and leaves the handle as it was;    *)
(* so does the second of two saves of the same payload.                    *)
(***************************************************************************)
C8_IdempotentSave ==
    [][(SaveReturns /\ s.initialized) =>
        /\ (~s.write_needed /\ out'.settings # s.latest_store.settings
                /\ out'.ret = 0)
            => /\ out'.frames = 1
               /\ s'.latest_store.counter = s.latest_store.counter + 1
        /\ (~s.write_needed /\ out'.settings = s.latest_store.settings)
            => /\ out'.ret = 0 /\ ~out'.wrote
               /\ nvm' = nvm /\ s' = s
        /\ (out.op = "save" /\ out.ret = 0 /\ out'.settings = out.settings)
            => /\ out'.ret = 0 /\ ~out'.wrote
               /\ nvm' = nvm /\ s' = s
      ]_vars

\* the second of two saves of one payload returned, the first had written
C8_Witness ==
    /\ out.op = "save" /\ out.after = "save" /\ ~out.wrote
    /\ s.initialized /\ lastWrite # 0 /\ hist.last = hist.prev

\* what the scan of partition p finds
Found(p) == find_latest_valid_store(nvm[p])
Usable(r) == r.ret \in {2, 3}
Selected(r) == s.latest_store = r.store /\ s.write_needed = (r.ret = 2)

(***************************************************************************)
(* C9.  The first load that returns 0: when both partitions yield a valid  *)
(* or stale frame, the handle holds the one with the greater counter, the  *)
(* one of partition A when the counters are equal; when one partition      *)
(* yields such a frame, the handle holds that one; write_needed is true    *)
(* exactly when the frame held is stale.                                   *)
(***************************************************************************)
C9_LoadDecision ==
    (FreshLoad /\ out.ret = 0 /\ nSaves = 0) =>
        LET rA == Found(PART_A)
            rB == Found(PART_B)
        IN  /\ (Usable(rA) /\ Usable(rB)) =>
                  IF rA.store.counter >= rB.store.counter
                  THEN Selected(rA) ELSE Selected(rB)
            /\ (Usable(rA) /\ ~Usable(rB)) => Selected(rA)
            /\ (~Usable(rA) /\ Usable(rB)) => Selected(rB)

\* the first load met equal counters and different payloads
C9_Witness ==
    /\ FreshLoad /\ out.ret = 0 /\ nSaves = 0
    /\ Found(PART_A).ret = 3 /\ Found(PART_B).ret = 3
    /\ Found(PART_A).store.counter = Found(PART_B).store.counter
    /\ Found(PART_A).store.settings # Found(PART_B).store.settings

(***************************************************************************)
(* C10.  When the first load finds both partitions empty or corrupt it     *)
(* returns 0, the caller's settings are the defaults and write_needed is   *)
(* set; the save that follows, when it returns 0, has written one frame,   *)
(* which lies intact at offset 0 of a partition erased behind it, also     *)
(* when its payload is the defaults.                                       *)
(***************************************************************************)
C10_DefaultsThenCleanFrame ==
    /\ (FreshLoad /\ out.both)
        => /\ out.ret = 0
           /\ out.settings = default_settings
           /\ s.write_needed
    /\ (out.op = "save" /\ out.both /\ out.ret = 0)
        => /\ out.frames = 1
           /\ IntactAt(nvm[out.part], 0)
           /\ PayloadAt(nvm[out.part], 0) = out.settings
           /\ \A i \in (F + 1)..Len(nvm[out.part]) : nvm[out.part][i] = 255

\* the last frame of the chain in mem starts at LastFrame(mem).offset when
\* LastFrame(mem).ret = 0
LastFrame(mem) == parse_partition(mem, Len(mem))

\* the last frame has the magic number and this firmware's length, and a CRC
\* that does not match
TornLast(mem) ==
    /\ LastFrame(mem).ret = 0
    /\ U16(mem, LastFrame(mem).offset + 5) = F
    /\ LastFrame(mem).offset + F <= Len(mem)
    /\ ~IntactAt(mem, LastFrame(mem).offset)

\* partition A yields a valid frame, the last frame of B is torn and its
\* counter is the one after A's
TornWriteScenario ==
    /\ FreshLoad /\ nSaves = 0
    /\ Found(PART_A).ret = 3
    /\ TornLast(nvm[PART_B])
    /\ CounterAt(nvm[PART_B], LastFrame(nvm[PART_B]).offset)
          = Found(PART_A).store.counter + 1

(***************************************************************************)
(* C11.  Torn write: partition A holds a valid frame, the last frame of    *)
(* partition B has the next counter, the magic number and the length but   *)
(* a wrong CRC.  The first load returns 0, the caller's settings are A's   *)
(* payload and write_needed is true.                                       *)
(***************************************************************************)
C11_TornWrite ==
    TornWriteScenario
        => /\ out.ret = 0
           /\ out.settings = Found(PART_A).store.settings
           /\ s.write_needed

\* the payload a firmware with a longer settings_t reads from the frame at
\* off: the bytes on the device, then the compiled-in defaults
StalePayloadAt(mem, off) ==
    [i \in 1..sizeof_settings_t |->
        IF i <= U16(mem, off + 5) - 10 THEN mem[off + 8 + i]
        ELSE default_settings[i]]

\* the first load selected the last frame of partition p, which is intact
\* over a length smaller than this firmware's
StaleLoaded(p) ==
    /\ FreshLoad /\ nSaves = 0
    /\ Found(p).ret = 2
    /\ \/ ~Usable(Found(OtherPart(p)))
       \/ Found(p).store.counter > Found(OtherPart(p)).store.counter

(***************************************************************************)
(* C12.  Forward-compatible read: when the frame the first load selects    *)
(* has the magic number, a length smaller than this firmware's and a CRC   *)
(* valid over that length, the load returns 0, the caller's settings are   *)
(* the payload bytes on the device followed by the defaults, write_needed  *)
(* is true, and the save that follows writes one frame of the full length. *)
(***************************************************************************)
C12_ForwardCompatibleRead ==
    [][\A p \in Parts :
          StaleLoaded(p) =>
              /\ out.ret = 0
              /\ out.settings = StalePayloadAt(nvm[p], LastFrame(nvm[p]).offset)
              /\ s.write_needed
              /\ SaveReturns =>
                    /\ out'.ret = 0 /\ out'.frames = 1
                    /\ s'.latest_store.length = F]_vars

\* a save call returns having targeted partition p, whose free offset left
\* no room for a frame
SaveOnFull(p) ==
    /\ SaveReturns /\ out'.part = p
    /\ PartFields(s, p)[1] + F > Len(nvm[p])

\* mem holds the store at offset 0 and erased bytes after it
OnlyFrame(mem, store) ==
    \A i \in 1..Len(mem) :
        mem[i] = IF i <= F THEN StoreBytes(store)[i] ELSE 255

(***************************************************************************)
(* C13.  Erase-on-full: when a save targets a partition whose free offset  *)
(* plus the frame size exceeds the partition size, the partition is erased *)
(* to all-ones and the frame is written at offset 0: after the save the    *)
(* partition holds the frame followed by erased bytes only, the save       *)
(* returns 0 and the partition's free offset is the frame size.            *)
(***************************************************************************)
C13_EraseOnFull ==
    [][\A p \in Parts :
          SaveOnFull(p) =>
              /\ out'.ret = 0
              /\ OnlyFrame(nvm'[p], s'.latest_store)
              /\ PartFields(s', p)[1] = F]_vars

\* the third store written by one session to partitions that hold one frame
\* each: its target was full
C13_Witness ==
    /\ out.op = "save" /\ out.ret = 0 /\ out.wrote
    /\ nBoots = 1 /\ nCrashes = 0
    /\ Len(nvm[PART_A]) = F
    /\ s.latest_store.counter >= 3
    /\ PartFields(s, out.part)[1] = F
    /\ OnlyFrame(nvm[out.part], s.latest_store)

(***************************************************************************)
(* C14.  On a device whose two partitions are erased, the first save after *)
(* the load writes its frame to partition A, and the next save of the      *)
(* session that writes a frame writes it to partition B.                   *)
(***************************************************************************)
C14_FirstSaveToA ==
    [][/\ (AllErased /\ s.initialized /\ SaveReturns) => out'.part = PART_A
       /\ (/\ nSaves = 1 /\ nBoots = 1 /\ nCrashes = 0
           /\ s.initialized /\ lastWrite # 0
           /\ SaveReturns /\ out'.part # 0) => out'.part = PART_B]_vars

\* the chain of frames in mem ends on a word that is neither the magic number
\* nor erased
WrongMagic(mem) == LastFrame(mem).ret = -EILSEQ

\* the last frame of the chain announces more bytes than this firmware's frame
Oversized(mem) ==
    /\ LastFrame(mem).ret = 0
    /\ U16(mem, LastFrame(mem).offset + 5) > F

StructuralError(mem) == WrongMagic(mem) \/ TornLast(mem) \/ Oversized(mem)

ReadHit(p) ==
    /\ fault.op = "read"
    /\ \/ fault.lo = 0
       \/ /\ LastFrame(nvm[p]).ret = 0 /\ LastFrame(nvm[p]).offset = 0
          /\ U16(nvm[p], 5) \in 11..F

LoadHit == ReadHit(PART_A) \/ (Found(PART_A).ret >= 0 /\ ReadHit(PART_B))

\* the save erases partition p before it writes
EraseNeeded(p) ==
    PartFields(s, p)[2] = -1 \/ PartFields(s, p)[1] + F > Len(nvm[p])

\* the save to partition p calls the failing write hook, or the failing erase
\* hook
WriteHit(p) ==
    /\ fault.op = "write"
    /\ fault.lo = 0 \/ PartFields(s, p)[1] = 0 \/ EraseNeeded(p)

EraseHit(p) == fault.op = "erase" /\ kind = "flash" /\ EraseNeeded(p)

ProbeLens == {1, 2, 4, 6, 8}

\* the three access calls return what the failing hook returns
AccessPropagates ==
    \A offset \in 0..(ScanSize - 1), len \in ProbeLens :
        offset + len <= ScanSize =>
            /\ hook_fails("read", offset, len)
                  => nvm_read(nvm[PART_A], offset, len).ret = -fault.err
            /\ hook_fails("write", offset, len)
                  => nvm_write(ScanSize, offset, Erased(len)).ret = -fault.err
            /\ hook_fails("erase", offset, len)
                  => nvm_erase(ScanSize, "flash", offset, len).ret = -fault.err

C15_WitnessTooLarge ==
    FreshLoad /\ out.ret = -E2BIG /\ Oversized(nvm[PART_B])

(***************************************************************************)
(* C16.  Device errors propagate unmodified: the access calls return the   *)
(* negative value the failing hook returns; a first load during which the  *)
(* read hook fails returns that value and leaves the handle uninitialized  *)
(* (a later load scans again); a save during which the write hook or the   *)
(* erase hook fails returns that value.                                    *)
(***************************************************************************)
C16_DeviceErrorsPropagate ==
    [][/\ AccessPropagates
       /\ (FreshLoad /\ LoadHit) => (out.ret = -fault.err /\ ~s.initialized)
       /\ \A p \in Parts :
             (SaveReturns /\ out'.part = p /\ (WriteHit(p) \/ EraseHit(p)))
                 => out'.ret = -fault.err]_vars

\* the device address the last access call computed, when it got that far
CallAddress ==
    access_address(nvm_getPart(acc.call.idx, acc.call.part, NoPart), acc.call.idx,
                   acc.call.offset, acc.call.len)

\* the last call reached nvm_devWrite (nvm_devErase) with this address
DevWriteAt(address) ==
    \/ acc.call.fn = "nvm_devWrite" /\ address = acc.call.offset
    \/ acc.call.fn = "nvm_write" /\ CallAddress.ret = 0
                                 /\ address = CallAddress.address

DevEraseAt(address) ==
    \/ acc.call.fn = "nvm_devErase" /\ address = acc.call.offset
    \/ acc.call.fn = "nvm_erase" /\ CallAddress.ret = 0
                                 /\ address = CallAddress.address

Misaligned(address, len, unit) ==
    Mod32(address, unit) # 0 \/ Mod32(len, unit) # 0

Rejected == acc.res.ret = -EINVAL /\ acc.res.hook = "none"

AccessCall ==
    /\ acc.call.fn \in {"nvm_read", "nvm_write", "nvm_erase"}
    /\ nvm_getPart(acc.call.idx, acc.call.part, NoPart).ret = 0

CallPart == nvm_getPart(acc.call.idx, acc.call.part, NoPart).pInfo

\* a + b > c in the integers, a, b and c being 32-bit words
SumExceeds(a, b, c) ==
    \/ a[1] + b[1] + ((a[2] + b[2]) \div Half) >= Half
    \/ Gt32(Add32(a, b), c)

\* the bytes [address, address + len) lie in the window of size bytes at
\* base, all numbers being small
Within(address, len, base, size) ==
    /\ address[1] = 0 /\ len[1] = 0
    /\ base <= address[2] /\ address[2] + len[2] <= base + size

(***************************************************************************)
(* C18.  Bounds: an access call with offset + len greater than the size of *)
(* the partition it names returns -EINVAL without invoking a device hook,  *)
(* and every hook an access call invokes is given bytes inside the         *)
(* partition: [baseAddr + p_off, baseAddr + p_off + p_size).               *)
(***************************************************************************)
C18_BoundsEnforced ==
    AccessCall =>
        /\ SumExceeds(acc.call.offset, acc.call.len, CallPart.size)
              => Rejected
        /\ acc.res.hook # "none"
              => Within(acc.res.address, acc.res.len,
                        AreaBase + CallPart.offset[2], CallPart.size[2])

\* a + b does not fit in a 32-bit word
Overflows(a, b) == a[1] + b[1] + ((a[2] + b[2]) \div Half) >= Half

(***************************************************************************)
(* C19.  An access call whose offset + len overflows the 32-bit word of    *)
(* the addition returns -EINVAL and invokes no hook: the wrapped sum is    *)
(* not accepted.                                                           *)
(***************************************************************************)
C19_OverflowRejected ==
    (AccessCall /\ Overflows(acc.call.offset, acc.call.len)) => Rejected

\* what the last access call returns when it names partition part
SameCallWithPart(part) ==
    IF acc.call.fn = "nvm_read"
    THEN nvm_read_u32(acc.dev, acc.call.idx, part, acc.call.offset,
                      acc.call.len)
    ELSE IF acc.call.fn = "nvm_write"
    THEN nvm_write_u32(acc.dev, acc.call.idx, part, acc.call.offset,
                       acc.call.len)
    ELSE nvm_erase_u32(acc.dev, acc.call.idx, part, acc.call.offset,
                       acc.call.len)

(***************************************************************************)
(* C20.  Partition number -1 in nvm_read, nvm_write and nvm_erase is the   *)
(* whole area: the call returns what the same call with partition 0        *)
(* returns, and a read with offset + len inside the area returns 0 having  *)
(* read at baseAddr + offset.                                              *)
(***************************************************************************)
C20_MinusOneIsWholeArea ==
    (/\ acc.call.fn \in {"nvm_read", "nvm_write", "nvm_erase"}
     /\ acc.call.idx = 0 /\ acc.call.part = Max32)
        => /\ acc.res = SameCallWithPart(U32(0))
           /\ (/\ acc.call.fn = "nvm_read"
               /\ ~SumExceeds(acc.call.offset, acc.call.len, U32(AreaSize)))
                 => /\ acc.res.ret = 0 /\ acc.res.hook = "read"
                    /\ acc.res.address = U32(AreaBase + acc.call.offset[2])

(***************************************************************************)
(* C21: nvm_getPart fails with -EINVAL when the area is not registered or  *)
(* when part is above nbPart; part 0 gives offset 0 and the size of the    *)
(* area; part in 1..nbPart gives entry part - 1 of the table; a failing    *)
(* call leaves the caller's record as it was.                              *)
(***************************************************************************)
GetPartCall == acc.call.fn = "nvm_getPart"
Registered(idx) == idx < nvmTab.nbAreas
CallArea == nvmTab.areas[acc.call.idx + 1]

C21_PartitionLookup ==
    GetPartCall =>
        IF ~Registered(acc.call.idx) \/ nvm_getDesc(acc.call.idx) = NULL
        THEN ~Registered(acc.call.idx) /\ nvm_getDesc(acc.call.idx) = NULL
             /\ acc.res.ret = -EINVAL /\ acc.pInfo = acc.before
        ELSE IF Gt32(acc.call.part, CallArea.nbPart)
        THEN acc.res.ret = -EINVAL /\ acc.pInfo = acc.before
        ELSE IF acc.call.part = U32(0)
        THEN /\ acc.res.ret = 0
             /\ acc.pInfo = [offset |-> U32(0), size |-> CallArea.size]
        ELSE /\ acc.res.ret = 0
             /\ acc.call.part[1] = 0
             /\ acc.pInfo = CallArea.partitions[acc.call.part[2]]

\* a lookup of the last partition succeeded, and a failed lookup was made
\* with a record that held something
C21_Witness ==
    /\ GetPartCall
    /\ \/ /\ acc.call.idx = 0 /\ acc.call.part = CallArea.nbPart
          /\ acc.res.ret = 0 /\ acc.pInfo.offset = U32(PartSize)
       \/ /\ acc.res.ret = -EINVAL /\ acc.before # NoPart
          /\ acc.pInfo = acc.before

(***************************************************************************)
(* C22: an access-layer read, write or erase that passes the test of the   *)
(* bounds is handed to the device operation with the address               *)
(* baseAddr + partition offset + offset, computed in 32 bits as the code    *)
(* does, and with the length of the caller; the sum is the exact one       *)
(* whenever offset + len does not leave the 32 bits.                       *)
(***************************************************************************)
PassesBounds ==
    /\ AccessCall
    /\ ~Gt32(Add32(acc.call.offset, acc.call.len), CallPart.size)

TranslatedAddress ==
    Add32(CallArea.baseAddr, Add32(CallPart.offset, acc.call.offset))

\* what the device operation of the call returns for an address
DeviceOperation(address) ==
    IF acc.call.fn = "nvm_read"
    THEN nvm_devRead(acc.dev, address, acc.call.len)
    ELSE IF acc.call.fn = "nvm_write"
    THEN nvm_devWrite(acc.dev, address, acc.call.len)
    ELSE nvm_devErase(acc.dev, address, acc.call.len)

C22_AddressTranslation ==
    PassesBounds =>
        /\ acc.res = DeviceOperation(TranslatedAddress)
        /\ acc.res.hook # "none"
              => /\ acc.res.address = TranslatedAddress
                 /\ acc.res.len = acc.call.len
        /\ ~Overflows(acc.call.offset, acc.call.len)
              => /\ TranslatedAddress[1] = 0
                 /\ TranslatedAddress[2] = CallArea.baseAddr[2]
                       + CallPart.offset[2] + acc.call.offset[2]

\* the second partition was written at offset 2: the hook got address 14
C22_Witness ==
    /\ PassesBounds
    /\ acc.call.fn = "nvm_write" /\ acc.call.part = U32(2)
    /\ acc.call.offset = U32(2) /\ acc.call.len = U32(2)
    /\ acc.res.hook = "write" /\ acc.res.ret = 0
    /\ acc.res.address = U32(AreaBase + PartSize + 2)

(***************************************************************************)
(* C23: the device calls and their optional hooks.                         *)
(***************************************************************************)
DevCall == acc.call.fn \in {"nvm_devWrite", "nvm_devErase", "nvm_devSync"}

HookPresent ==
    IF acc.call.fn = "nvm_devWrite" THEN acc.dev.write
    ELSE IF acc.call.fn = "nvm_devErase" THEN acc.dev.erase
    ELSE acc.dev.sync

\* the call is a write or an erase whose address or length is not a
\* multiple of the granularity of the device
DevMisaligned ==
    \/ /\ acc.call.fn = "nvm_devWrite"
       /\ Misaligned(acc.call.offset, acc.call.len, acc.dev.write_size)
    \/ /\ acc.call.fn = "nvm_devErase"
       /\ Misaligned(acc.call.offset, acc.call.len, acc.dev.erase_size)

\* what the hook of the call returns
HookResult ==
    IF acc.call.fn = "nvm_devSync" THEN acc.call.hook_ret
    ELSE hook_call("any", acc.call.offset, acc.call.len).ret

\* the hook of the call was invoked with the arguments of the call and its
\* result returned
HookInvoked ==
    /\ acc.res.hook = (IF acc.call.fn = "nvm_devWrite" THEN "write"
                       ELSE IF acc.call.fn = "nvm_devErase" THEN "erase"
                       ELSE "sync")
    /\ acc.res.address = acc.call.offset /\ acc.res.len = acc.call.len
    /\ acc.res.ret = HookResult

\* C23 as stated: nvm_devWrite, nvm_devErase and nvm_devSync return -ENOTSUP
\* when their hook is absent and the result of the hook otherwise, and a
\* misaligned write or erase returns -EINVAL whether or not the hook is
\* present.
C23_OptionalHooks ==
    DevCall =>
        /\ ~HookPresent => acc.res.ret = -ENOTSUP
        /\ DevMisaligned => acc.res.ret = -EINVAL
        /\ (HookPresent /\ ~DevMisaligned) => HookInvoked

\* C23 amended: an absent hook gives -ENOTSUP whatever the alignment; with
\* the hook present a misaligned write or erase gives -EINVAL without
\* invoking the hook, and every other call returns the result of the hook.
C23_AbsentHookBeforeAlignment ==
    DevCall =>
        IF ~HookPresent THEN acc.res.ret = -ENOTSUP /\ acc.res.hook = "none"
        ELSE IF DevMisaligned THEN Rejected
        ELSE HookInvoked

\* a misaligned erase on a device without the erase hook, and a sync whose
\* hook failed
C23_Witness ==
    /\ DevCall
    /\ \/ /\ acc.call.fn = "nvm_devErase" /\ ~HookPresent /\ DevMisaligned
          /\ acc.res.ret = -ENOTSUP
       \/ /\ acc.call.fn = "nvm_devSync" /\ HookPresent
          /\ acc.call.hook_ret # 0 /\ acc.res.ret = acc.call.hook_ret

(***************************************************************************)
(* C24: after nvm_devErase erased one erase unit, or several, every byte   *)
(* of the erased range reads back as 0xFF and every other byte of the      *)
(* device reads back with the value it had before the call.                *)
(***************************************************************************)
\* the byte nvm_devRead returns for the address i of a flash holding mem
ReadBack(mem, i) ==
    buffer_after(mem, nvm_devRead(FlashDev, U32(i), U32(1)), <<0>>)[1]

InRange(i, address, len) == address[2] <= i /\ i < address[2] + len[2]

ErasedBy(a) == a.call.fn = "nvm_devErase" /\ a.res.ret = 0

C24_EraseFrame ==
    [][(acc'.n = acc.n + 1 /\ ErasedBy(acc'))
         => \A i \in 0..(DevSize - 1) :
               ReadBack(acc'.mem, i) =
                  IF InRange(i, acc'.call.offset, acc'.call.len) THEN 255
                  ELSE ReadBack(acc.mem, i)]_vars

\* one sector of a flash that held data was erased: it reads 0xFF and the
\* rest of the device still holds the data
C24_Witness ==
    /\ ErasedBy(acc) /\ acc.call.len = U32(FlashDev.erase_size)
    /\ \A i \in 0..(DevSize - 1) :
          ReadBack(acc.mem, i) =
             IF InRange(i, acc.call.offset, acc.call.len) THEN 255
             ELSE OldFlash[i + 1]

(***************************************************************************)
(* C25: what nvm_devWrite wrote into erased flash, in chunks of write_size *)
(* bytes or a multiple, is what nvm_devRead returns at every offset; the   *)
(* misaligned and the out-of-range calls fail with -EINVAL and never       *)
(* change the data.                                                        *)
(***************************************************************************)
TestCall == acc.call.fn \in {"nvm_devRead", "nvm_devWrite", "nvm_devErase"}

\* the last call of the test is one of those that must fail
MustFail ==
    \/ TestCall /\ ~InDevice(acc.call.offset, acc.call.len)
    \/ /\ acc.call.fn = "nvm_devWrite"
       /\ Misaligned(acc.call.offset, acc.call.len, acc.dev.write_size)
    \/ /\ acc.call.fn = "nvm_devErase"
       /\ Misaligned(acc.call.offset, acc.call.len, acc.dev.erase_size)

ReadOk == acc.call.fn = "nvm_devRead" /\ acc.res.ret = 0

C25_WriteReadRoundTrip ==
    TestCall =>
        /\ \A i \in 0..(DevSize - 1) :
              acc.want[i + 1] # -1 => ReadBack(acc.mem, i) = acc.want[i + 1]
        /\ ReadOk =>
              \A k \in 1..acc.call.len[2] :
                 acc.want[acc.call.offset[2] + k] # -1
                    => acc.data[k] = acc.want[acc.call.offset[2] + k]
        /\ MustFail => acc.res.ret = -EINVAL

\* two chunks on both sides of the bank boundary were written, a call
\* failed, and the four bytes were read back
C25_Witness ==
    /\ ReadOk /\ acc.failed = 1
    /\ acc.call.offset = U32(BankSplit - 2) /\ acc.call.len = U32(4)
    /\ \A k \in 1..4 : /\ acc.want[BankSplit - 2 + k] = BankSplit - 2 + k
                        /\ acc.data[k] = BankSplit - 2 + k

(***************************************************************************)
(* C26: back-off on a corrupt tail.  When a partition holds a run of       *)
(* intact frames, then one last frame with the magic number, this          *)
(* firmware's length and a CRC that does not match, then erased bytes,     *)
(* find_latest_valid_store returns the intact frame just before the        *)
(* corrupt one, as valid or stale, and not the status corrupt.             *)
(***************************************************************************)
\* intact frames fill mem from off up to last
RECURSIVE IntactRun(_, _, _)
IntactRun(mem, off, last) ==
    \/ off = last
    \/ /\ off < last /\ IntactAt(mem, off)
       /\ IntactRun(mem, off + U16(mem, off + 5), last)

\* the frame at off ends where the last frame begins
JustBefore(mem, off) ==
    IntactAt(mem, off) /\ off + U16(mem, off + 5) = LastFrame(mem).offset

CorruptTail(mem) ==
    /\ TornLast(mem)
    /\ LastFrame(mem).offset > 0
    /\ IntactRun(mem, 0, LastFrame(mem).offset)
    /\ \A i \in (LastFrame(mem).offset + F + 1)..Len(mem) : mem[i] = 255

C26_BackOffOnCorruptTail ==
    \A p \in Parts :
        CorruptTail(nvm[p]) =>
            \E off \in 0..(Len(nvm[p]) - 10) :
                /\ JustBefore(nvm[p], off)
                /\ Usable(Found(p))
                /\ Found(p).store.counter = CounterAt(nvm[p], off)
                /\ Found(p).store.settings = PayloadAt(nvm[p], off)

(***************************************************************************)
(* C27: the classification of parse_partition, for every content of a      *)
(* partition and every limit > 0.  It returns -ENOENT exactly when the     *)
(* word at offset 0 is 0xFFFFFFFF; it returns 0 and the offset of the last *)
(* header when the chain of headers with the magic number, each advanced   *)
(* by its length, ends on 0xFFFFFFFF; it returns -EILSEQ exactly when the  *)
(* chain ends on a word that is neither the magic number nor 0xFFFFFFFF.   *)
(***************************************************************************)
WordAt(mem, off) ==
    IF off + 4 <= Len(mem) THEN SubSeq(mem, off + 1, off + 4) ELSE <<>>

\* the chain of headers from off on: end is the position where it stops,
\* last the offset of its last header
RECURSIVE ChainEnd(_, _, _)
ChainEnd(mem, off, prev) ==
    IF off + 6 <= Len(mem) /\ WordAt(mem, off) = MagicBytes
       /\ U16(mem, off + 5) > 0
    THEN ChainEnd(mem, off + U16(mem, off + 5), off)
    ELSE [end |-> off, last |-> prev]

Classified(mem, limit, r, c) ==
    /\ (r.ret = -ENOENT) <=> (WordAt(mem, 0) = ErasedWord)
    /\ (c.end > 0 /\ WordAt(mem, c.end) = ErasedWord)
          => (r.ret = 0 /\ r.offset = c.last)
    /\ (r.ret = -EILSEQ)
          <=> (WordAt(mem, c.end) \notin {<<>>, MagicBytes, ErasedWord})

C27_ParseClassification ==
    \A p \in Parts : \A limit \in 1..Len(nvm[p]) :
        Classified(nvm[p], limit, parse_partition(nvm[p], limit),
                   ChainEnd(nvm[p], 0, 0))

(***************************************************************************)
(* C28: check_store_integrity returns 1 exactly when the magic number      *)
(* matches, the length is this firmware's frame size and the CRC over the  *)
(* first length - 2 bytes matches; -1 exactly when the magic number        *)
(* matches, the length is smaller and the CRC over the first length - 2    *)
(* bytes matches; 0 in every other case, a greater length included.        *)
(***************************************************************************)
\* the CRC stored at the end of the length bytes at off is the CRC of the
\* bytes before it
CrcMatches(mem, off, length) ==
    /\ length >= 2 /\ off + length <= Len(mem)
    /\ U16(mem, off + length - 1)
          = crc_ccitt(SubSeq(mem, off + 1, off + length - 2), length - 2)

\* ok: what check_store_integrity says of the store read at off
Integrity(mem, off, length, ok) ==
    /\ (ok = 1) <=> /\ WordAt(mem, off) = MagicBytes /\ length = F
                     /\ CrcMatches(mem, off, length)
    /\ (ok = -1) <=> /\ WordAt(mem, off) = MagicBytes /\ length < F
                      /\ CrcMatches(mem, off, length)
    /\ (ok = 0) <=> ~(/\ WordAt(mem, off) = MagicBytes /\ length <= F
                       /\ CrcMatches(mem, off, length))

\* r: what read_store returns at off; the store is checked when it was read
\* whole, or when its header announces too many bytes
IntegrityOf(mem, off, r) ==
    r.ret \in {0, -E2BIG}
        => Integrity(mem, off, U16(mem, off + 5),
                     check_store_integrity(r.store))

C28_IntegrityClassification ==
    \A p \in Parts : \A off \in 0..(Len(nvm[p]) - 8) :
        IntegrityOf(nvm[p], off, read_store(nvm[p], off, ZeroStore))

\* a load scanned a partition that begins with a stale frame and one that
\* begins with a frame of a greater length
C28_Witness ==
    \E p \in Parts :
        /\ out.op = "load"
        /\ check_store_integrity(read_store(nvm[p], 0, ZeroStore).store) = -1
        /\ read_store(nvm[OtherPart(p)], 0, ZeroStore).ret = -E2BIG
        /\ U16(nvm[p], 5) < F

(***************************************************************************)
(* C29: write to erased bytes only.  From erased partitions, through any   *)
(* sequence of loads, saves and saves cut by a power loss (each followed   *)
(* by a fresh load), every store that a save writes goes to a range        *)
(* [offset, offset + F) that lies inside the partition and holds 0xFF in   *)
(* every byte when the write is issued.                                    *)
(***************************************************************************)
\* the partition when the last operation of ops is issued
BeforeLast(mem, ops) ==
    IF Len(ops) = 1 THEN mem
    ELSE ApplyOps(mem, kind, SubSeq(ops, 1, Len(ops) - 1), 1,
                  StreamLen(SubSeq(ops, 1, Len(ops) - 1), 1))

\* op: the write of a store, mem: the partition when it is issued
OnErased(mem, op) ==
    /\ op.off + F <= Len(mem)
    /\ \A i \in (op.off + 1)..(op.off + F) : mem[i] = 255

\* c: what the save call returned
WritesOnErased(c) ==
    (c.ops # <<>> /\ FrameWrites(c.ops, 1) > 0)
        => OnErased(BeforeLast(nvm[c.part], c.ops), c.ops[Len(c.ops)])

C29_WriteToErased ==
    [][(out'.op = "save" /\ nSaves' = nSaves + 1)
         => WritesOnErased(save_call(s, out'.settings, Len(nvm[PART_A]),
                                     kind))]_vars

(***************************************************************************)
(* C30: a save whose target partition has the status corrupt (-1) erases   *)
(* the whole partition, writes the store at offset 0 and, when it returns  *)
(* 0, leaves the status clean (1) and write_needed false; a save whose     *)
(* target is empty (0) or clean (1) with room for a store writes it at the *)
(* recorded free offset without erasing and leaves the status clean.       *)
(***************************************************************************)
\* c: what the save call returned; the partition p was erased, then the
\* store written at offset 0
ErasedThenWritten(p, c) ==
    /\ Len(c.ops) >= 2
    /\ BeforeLast(nvm[p], c.ops) = Erased(Len(nvm[p]))
    /\ c.ops[Len(c.ops)] = WriteOp(0, StoreBytes(c.s.latest_store))

SaveByStatus(p, c) ==
    /\ PartFields(s, p)[2] = -1
          => /\ ErasedThenWritten(p, c)
             /\ out'.ret = 0
                   => /\ PartFields(s', p) = <<F, 1>>
                      /\ ~s'.write_needed
                      /\ OnlyFrame(nvm'[p], s'.latest_store)
    /\ (PartFields(s, p)[2] \in {0, 1}
          /\ PartFields(s, p)[1] + F <= Len(nvm[p]))
          => /\ c.ops = <<WriteOp(PartFields(s, p)[1],
                                  StoreBytes(c.s.latest_store))>>
             /\ PartFields(s', p) = <<PartFields(s, p)[1] + F, 1>>

C30_SaveByStatus ==
    [][\A p \in Parts :
          (SaveReturns /\ out'.part = p)
              => SaveByStatus(p, save_call(s, out'.settings, Len(nvm[p]),
                                           kind))]_vars

\* a save found its target corrupt on partitions with room for two stores:
\* it erased the partition and wrote its store at offset 0
C30_Witness ==
    /\ out.op = "save" /\ out.ret = 0 /\ out.status = -1
    /\ Len(nvm[out.part]) > 2 * F
    /\ PartFields(s, out.part) = <<F, 1>> /\ ~s.write_needed
    /\ OnlyFrame(nvm[out.part], s.latest_store)

(***************************************************************************)
(* C31: erase fallback.  On a device without the erase hook, a save that   *)
(* erases its partition of size n overwrites it with n \div 4 writes of    *)
(* four 0xFF bytes at 0, 4, 8, ... followed by n % 4 writes of one 0xFF    *)
(* byte, then writes the store at offset 0.                                *)
(***************************************************************************)
\* as many 4-byte writes as fit in size bytes, then single bytes
FullWordsThenBytes(size) ==
    [k \in 1..((size \div 4) + (size % 4)) |->
        IF k <= size \div 4 THEN WriteOp(4 * (k - 1), ErasedWord)
        ELSE WriteOp(4 * (size \div 4) + (k - (size \div 4) - 1), <<255>>)]

\* the save erases partition p: its status is corrupt or no store fits
SaveErases(p) ==
    \/ PartFields(s, p)[2] = -1
    \/ PartFields(s, p)[1] + F > Len(nvm[p])

FallbackThenFrame(p, c) ==
    /\ c.ops = FullWordsThenBytes(Len(nvm[p]))
                  \o <<WriteOp(0, StoreBytes(c.s.latest_store))>>
    /\ nvm'[p] = [i \in 1..Len(nvm[p]) |->
                    IF i <= F THEN StoreBytes(c.s.latest_store)[i] ELSE 255]

C31_EraseFallback ==
    [][\A p \in Parts :
          (SaveReturns /\ out'.part = p /\ kind = "file" /\ SaveErases(p))
              => FallbackThenFrame(p, save_call(s, out'.settings,
                                                Len(nvm[p]), kind))]_vars

(***************************************************************************)
(* C32: counter wrap.  Every save that writes a store adds one to the      *)
(* 16-bit counter modulo 2^16.  When the last store of partition A has     *)
(* counter 0 (written by the save that wrapped the counter) and the last   *)
(* store of partition B has counter 65535, a load on a fresh handle        *)
(* returns 0 and caches the store of partition B.                          *)
(***************************************************************************)
\* the intact frame at off is the last one of the partition
LastIntactAt(mem, off) ==
    /\ IntactAt(mem, off)
    /\ \A o \in (off + 1)..(Len(mem) - 10) : ~IntactAt(mem, o)

\* the device after the save that wrapped the counter
Wrapped(oa, ob) ==
    /\ LastIntactAt(nvm[PART_A], oa) /\ CounterAt(nvm[PART_A], oa) = 0
    /\ LastIntactAt(nvm[PART_B], ob)
    /\ CounterAt(nvm[PART_B], ob) = LastCounter

C32_CounterWrap ==
    [][/\ (SaveReturns /\ out'.wrote)
            => s'.latest_store.counter
                  = (s.latest_store.counter + 1) % (LastCounter + 1)
       /\ \A oa, ob \in 0..(Len(nvm[PART_A]) - 10) :
            (out'.op = "load" /\ out'.first /\ Wrapped(oa, ob))
                => /\ out'.ret = 0
                   /\ s'.latest_store.counter = LastCounter
                   /\ s'.latest_store.settings = PayloadAt(nvm[PART_B], ob)
      ]_vars

(***************************************************************************)
(* C33: load leaves the device alone.  No load changes a byte of the       *)
(* partitions.  A load on a handle that is already loaded returns 0, gives *)
(* the caller the cached settings, leaves the handle as it was and returns *)
(* the same on a device none of whose bytes can be read; the cached        *)
(* settings are those of the last save call on the loaded handle, so a     *)
(* load that follows a save returns that save's payload.                   *)
(***************************************************************************)
\* partitions too short for any read: every nvm_read returns -EINVAL
Unreadable == [p \in Parts |-> <<0>>]

LoadStep == out'.op = "load" /\ out' # out

\* c: what the load returns on the device as it is
CachedLoad(c) ==
    /\ c = load_call(s, Unreadable)
    /\ c.ret = 0 /\ c.s = s /\ s' = s
    /\ out'.ret = 0
    /\ out'.settings = s.latest_store.settings
    /\ out.op = "save" => out'.settings = out.settings

C33_LoadLeavesDevice ==
    [][/\ LoadStep => nvm' = nvm
       /\ (LoadStep /\ s.initialized) => CachedLoad(load_call(s, nvm))
       /\ (SaveReturns /\ s.initialized)
              => s'.latest_store.settings = out'.settings
      ]_vars

\* a loaded handle saved another payload than the one it had loaded, then
\* loaded again and got that payload
C33_Witness ==
    /\ out.op = "load" /\ ~out.first /\ out.after = "save" /\ out.ret = 0
    /\ out.settings = hist.last /\ hist.last # hist.prev
    /\ s.initialized

(***************************************************************************)
(* C34: cached-frame invariant.  From init on, after every load and every  *)
(* save, failed ones included, check_store_integrity says of the cached    *)
(* latest_store that it is valid (1) or stale (-1).  The store that init   *)
(* builds, and the one load builds when no partition is usable, has        *)
(* counter 0, the full length, the default settings and a matching CRC;    *)
(* the store after a save call has the full length and a matching CRC.     *)
(***************************************************************************)
FullAndMatching(store) ==
    /\ store.MAGIC = MagicBytes
    /\ store.length = sizeof_settings_store_t
    /\ store.crc = crc_ccitt(StoreBytes(store), sizeof_settings_store_t - 2)

C34_CachedFrameInvariant ==
    /\ phase # "off" => check_store_integrity(s.latest_store) \in {1, -1}
    /\ (out.op = "init" \/ (FreshLoad /\ out.both))
          => /\ FullAndMatching(s.latest_store)
             /\ s.latest_store.counter = 0
             /\ s.latest_store.settings = default_settings
    /\ out.op = "save" => FullAndMatching(s.latest_store)

\* a load cached a stale store; the save that followed failed in the device
\* and left the updated store, of full length, in the cache
C34_Witness ==
    /\ out.op = "save" /\ out.after = "load" /\ out.ret < 0
    /\ s.write_needed /\ s.latest_store.counter = 3
    /\ check_store_integrity(s.latest_store) = 1

(***************************************************************************)
(* C35: a partition packed to its end.  When intact frames follow one      *)
(* another from offset 0 and the last one ends less than 6 bytes before    *)
(* the end of the partition, the scan of the partition finds a valid or    *)
(* stale store, the one of that last frame: it reports neither a corrupt   *)
(* partition nor an error.                                                 *)
(***************************************************************************)
\* last: the offset of the last frame
Packed(mem, last) ==
    /\ IntactRun(mem, 0, last)
    /\ IntactAt(mem, last)
    /\ Len(mem) - (last + U16(mem, last + 5)) < 6
    /\ \A i \in (last + U16(mem, last + 5) + 1)..Len(mem) : mem[i] = 255

C35_PackedPartitionScansClean ==
    \A p \in Parts : \A last \in 0..(Len(nvm[p]) - 10) :
        Packed(nvm[p], last)
            => /\ Usable(Found(p))
               /\ Found(p).store.counter = CounterAt(nvm[p], last)
               /\ Found(p).store.settings = PayloadAt(nvm[p], last)

(***************************************************************************)
(* C36: scan termination.  Whatever the partitions hold, parse_partition   *)
(* returns for every limit, find_latest_valid_store returns, and no load   *)
(* is left inside a call that never returns.                               *)
(***************************************************************************)
C36_ScanTermination ==
    /\ phase # "hung"
    /\ \A p \in Parts :
          /\ Found(p).ret # NoReturn
          /\ \A limit \in 1..Len(nvm[p]) :
                parse_partition(nvm[p], limit).ret # NoReturn

(***************************************************************************)
(* C37: a failed save is retried.  A save that returns an error leaves     *)
(* write_needed true and the status of both partitions as they were, with  *)
(* the cached store holding the payload of the call and the counter plus   *)
(* one.  The save call that follows it with the same payload adds one to   *)
(* the counter again and goes to the other partition; when it returns 0 it *)
(* has written one store.                                                  *)
(***************************************************************************)
SaveFailed ==
    /\ s'.write_needed
    /\ s'.part_A_status = s.part_A_status
    /\ s'.part_B_status = s.part_B_status
    /\ s'.latest_store.settings = out'.settings
    /\ s'.latest_store.counter = (s.latest_store.counter + 1) % (LastCounter + 1)

SaveRetried ==
    /\ s.write_needed
    /\ s'.latest_store.counter = (s.latest_store.counter + 1) % (LastCounter + 1)
    /\ out'.part = OtherPart(out.part)
    /\ out'.ret = 0 => (out'.frames = 1 /\ ~s'.write_needed)

C37_FailedSaveRetried ==
    [][/\ (SaveReturns /\ out'.ret < 0) => SaveFailed
       /\ (SaveReturns /\ out.op = "save" /\ out.ret < 0
             /\ out'.settings = out.settings) => SaveRetried
      ]_vars

\* the second of two saves of one payload wrote a store: the first had
\* failed, the hook has recovered since
C37_Witness ==
    /\ out.op = "save" /\ out.after = "save" /\ out.ret = 0 /\ out.wrote
    /\ hist.last = hist.prev
    /\ fault = NoFault /\ ~s.write_needed

(***************************************************************************)
(* C38: a last header with the magic number and a length field from 1 to   *)
(* 9.  The scan of a partition that ends on such a header (behind intact   *)
(* frames or alone, erased bytes after it) reports the partition corrupt   *)
(* or the store of an intact frame before the header, never an error and   *)
(* never no result; the first load over such a partition returns 0 unless  *)
(* the other partition holds a header of length 0.                         *)
(***************************************************************************)
ShortTail(mem, off) ==
    /\ IntactRun(mem, 0, off)
    /\ WordAt(mem, off) = MagicBytes
    /\ U16(mem, off + 5) \in 1..9
    /\ \A i \in (off + 9)..Len(mem) : mem[i] = 255

EndsShort(p) == \E off \in 0..(Len(nvm[p]) - 8) : ShortTail(nvm[p], off)

C38_ShortLengthIsCorrupt ==
    /\ \A p \in Parts : EndsShort(p) => Found(p).ret \in {0, 2, 3}
    /\ (/\ FreshLoad
        /\ \E p \in Parts : EndsShort(p)
        /\ \A p \in Parts : parse_partition(nvm[p], Len(nvm[p])).ret # NoReturn)
          => out.ret = 0

(***************************************************************************)
(* C40: user_functions_task never calls a NULL function pointer.  Whatever *)
(* the other thread does with user_functions_add, user_functions_remove,   *)
(* user_functions_enable, user_functions_disable and                       *)
(* user_functions_trigger, every f the task calls, for an expired timer or *)
(* for a trigger, is the function of a registered slot at the call.        *)
(***************************************************************************)
C40_NeverCallsNull ==
    /\ uf.call.f # "NULL"
    /\ uf.pc # "fault"

(***************************************************************************)
(* C39: no lost trigger.  A call of user_functions_trigger for a           *)
(* registered slot, made before user_functions_task is entered or while it *)
(* waits on the condition variable, is followed by a call of that slot's   *)
(* function in the running or the next user_functions_task: the slot does  *)
(* not stay asked for, and no slot whose bit a trigger has set is left     *)
(* when the task returns.  The call takes the slot's bit away, so several  *)
(* triggers before it are one execution, and unlocked_async_tasks is 0     *)
(* whenever the task releases the mutex.                                   *)
(***************************************************************************)
ReleasesMutex == uf.mutex = "task" /\ uf'.mutex = "free"
TaskReturns == uf.pc = "async" /\ uf'.pc = "idle"
AsyncCall ==
    /\ uf.pc = "async" /\ uf'.pc = "async"
    /\ uf'.unlocked_async_tasks # uf.unlocked_async_tasks

C39_NoLostTrigger ==
    /\ [][/\ ReleasesMutex => uf'.unlocked_async_tasks = 0
          /\ TaskReturns => uf'.owed = {}
          /\ AsyncCall => /\ uf'.call.id = ctz(uf.unlocked_async_tasks)
                          /\ uf'.call.id \notin uf'.asked
                          /\ ~HasBit(uf'.unlocked_async_tasks, uf'.call.id)
         ]_vars
    /\ \A id \in Slots : (id \in uf.asked) ~> (id \notin uf.asked)

====
